---- MODULE Spec2Model ----
(***************************************************************************)
(* virtio-9pd: the 9P2000.L client engine (client.rs), the scheme adapter  *)
(* (scheme.rs) and the daemon's control loop (main.rs), as a state machine *)
(* over one transport queue and an abstract 9P server.                     *)
(*                                                                         *)
(* Granularity: one step per queue submission (Submit), one per completion *)
(* consumed by transact (the *_Done actions, which run the handler's code  *)
(* up to its next client call or its return), one per dequeued scheme      *)
(* request (the *_Start actions) and one per written response.             *)
(*                                                                         *)
(* Environment: the device answers each chain with any written count and   *)
(* header (Completions); the server changes its fid table only when it     *)
(* answers with the conformant success reply, and releases a fid on every  *)
(* Tclunk it receives.  Memory allocation (Vec, Dma::zeroed_slice) is      *)
(* taken to succeed.                                                       *)
(*                                                                         *)
(* Widths: fid_counter is an AtomicU32 whose fetch_add wraps; it is kept   *)
(* as a wrapping counter over FidWrap values, the highest being NOFID.     *)
(***************************************************************************)
EXTENDS Integers, Sequences, FiniteSets, TLC

----------------------------------------------------------------------------
(* Bounds of the model *)

\* the fid counter wraps at FidWrap (2^32 in client.rs): fids are 0 .. FidWrap - 1
FidWrap == 3
\* fids alloc_fid may hand out in one run (the handlers start while the fids
\* they may allocate are within this budget)
MaxAllocs == 4
\* handles that may be open at the same time (open starts below this number)
MaxHandle == 1
\* small written / size values enumerated for transact: 0..MaxSmall
MaxSmall == 12
\* values enumerated on each side of msize for transact
MsizeSlack == 2
\* the fields of a message of the codec taken alone
MaxItems == 2
\* the entries of a directory the server sends in one Rreaddir
MaxEntries == 2
\* the fields of a message on which one parser read is taken alone
MaxRead == 1

----------------------------------------------------------------------------
(* protocol.rs: message types and sizes *)

Tversion == 100
Rversion == 101
Tattach == 104
Rattach == 105
Rerror == 107
Rflush == 109
Twalk == 110
Rwalk == 111
Tread == 116
Rread == 117
Twrite == 118
Rwrite == 119
Tclunk == 120
Rclunk == 121
Tstatfs == 8
Tlopen == 12
Tlcreate == 14
Tgetattr == 24
Tsetattr == 26
Treaddir == 40
Tfsync == 50
Trenameat == 74
Tunlinkat == 76

QID_DIR == 128
QID_FILE == 0
QidSIZE == 13
HeaderSIZE == 7
P9_RDONLY == 0
P9_WRONLY == 1
P9_RDWR == 2
P9_CREATE == 64
P9_TRUNC == 512

\* client.rs
MSIZE == 131072
VERSION == "9P2000.L"
VERSION_LEN == 8

\* syscall::flag, as imported by scheme.rs
O_RDONLY == 65536
O_WRONLY == 131072
O_RDWR == 196608
O_ACCMODE == 196608
O_CREAT == 33554432
O_TRUNC == 67108864
O_DIRECTORY == 268435456
O_STAT == 536870912
PERM_MASK == 4095
S_IFREG == 32768

\* a field a message does not carry
NoField == 0 - 1
\* protocol.rs NOFID = u32::MAX: the all-ones fid
NOFID == FidWrap - 1

Min(a, b) == IF a <= b THEN a ELSE b

\* flags & bit # 0, for a one-bit mask
HasFlag(flags, bit) == (flags \div bit) % 2 = 1

\* flags & O_ACCMODE (bits 16 and 17)
AccMode(flags) == ((flags \div O_RDONLY) % 4) * O_RDONLY

\* Qid::is_dir: typ & QID_DIR != 0
is_dir(qid) == (qid.typ \div QID_DIR) % 2 = 1

----------------------------------------------------------------------------
(* Paths: strings as sequences of one-character strings *)

\* str::rfind('/'): the last index holding "/", 0 when there is none
RECURSIVE rfind(_, _)
rfind(s, i) ==
    IF i = 0 THEN 0
    ELSE IF s[i] = "/" THEN i
    ELSE rfind(s, i - 1)

\* the (parent, name) split of open and frename
parent_of(path) ==
    LET i == rfind(path, Len(path))
    IN IF i = 0 THEN <<>> ELSE SubSeq(path, 1, i - 1)

name_of(path) ==
    LET i == rfind(path, Len(path))
    IN IF i = 0 THEN path ELSE SubSeq(path, i + 1, Len(path))

\* path.split('/').filter(|s| !s.is_empty()): the sequence of components
RECURSIVE split_from(_, _, _)
split_from(s, i, acc) ==
    IF i > Len(s)
    THEN (IF acc = <<>> THEN <<>> ELSE <<acc>>)
    ELSE IF s[i] = "/"
         THEN (IF acc = <<>> THEN <<>> ELSE <<acc>>) \o split_from(s, i + 1, <<>>)
         ELSE split_from(s, i + 1, Append(acc, s[i]))

components(path) == split_from(path, 1, <<>>)

\* "", "a", "a/b/x"
P_empty == <<>>
P_a == <<"a">>
P_abx == <<"a", "/", "b", "/", "x">>

RenamePaths == {P_a, P_abx}

\* main.rs lines 93-97: "9p." and the mount tag, one element a byte
scheme_name == <<"9", "p", ".", "t">>

----------------------------------------------------------------------------
(* MessageBuilder: the encoded length of what it has appended so far *)

builder_new == HeaderSIZE
put_u16(sz) == sz + 2
put_u32(sz) == sz + 4
put_u64(sz) == sz + 8
put_strn(sz, len) == sz + 2 + len
put_str(sz, s) == put_strn(sz, Len(s))
put_data(sz, len) == sz + 4 + len

RECURSIVE put_names(_, _, _)
put_names(sz, names, i) ==
    IF i > Len(names) THEN sz
    ELSE put_names(put_str(sz, names[i]), names, i + 1)

\* a request on the queue: its type, its fid fields, a count (or its flags),
\* its encoded size, and the mode and gid fields that only Tlcreate carries
Req(typ, fid, newfid, n, size) ==
    [typ |-> typ, fid |-> fid, newfid |-> newfid, n |-> n, size |-> size,
     mode |-> NoField, gid |-> NoField]

----------------------------------------------------------------------------
(* client.rs: transact's validation of a completed chain *)

\* The outcome of transact for a chain the device completed with `written`
\* bytes and a header (hsize, htyp), the response buffer being ms bytes:
\* "ok" (the slice [0, hsize) is returned), "err", or "panic" (the slice
\* resp_dma[7..hsize] with hsize < 7).
transact(written, hsize, htyp, ms) ==
    IF written < HeaderSIZE THEN "err"
    ELSE IF hsize > written \/ hsize > ms THEN "err"
    ELSE IF htyp = Rerror
         THEN (IF hsize < HeaderSIZE THEN "panic" ELSE "err")
    ELSE "ok"

----------------------------------------------------------------------------
(* The device and the 9P server *)

Qid(typ, path) == [typ |-> typ, version |-> 0, path |-> path]
QidNone == Qid(QID_FILE, 0)
QidFile == Qid(QID_FILE, 1)
QidDir == Qid(QID_DIR, 2)
\* the QID of a file Tlcreate has just made: no walk answers it
QidNew == Qid(QID_FILE, 3)
Qids == {QidFile, QidDir}

\* the msize a server may answer in Rversion
SrvMsizes == {8192, MSIZE}
\* the version strings a server may answer, with their byte lengths
SrvVersions == {VERSION, "unknown"}
StrLen(v) == IF v = VERSION THEN VERSION_LEN ELSE 7

\* a completed chain: the used-ring length (written), the header the device
\* wrote (size, typ), the payload fields a decoder reads (n, qid, ver), and
\* eff: the server performed the request (it answered the conformant success)
Resp(eff, written, size, typ, n, qid, ver) ==
    [eff |-> eff, written |-> written, size |-> size, typ |-> typ,
     n |-> n, qid |-> qid, ver |-> ver]

\* the payload bytes the decoder of req's reply reads after the header
Need(req, r) ==
    CASE req.typ = Tversion -> 4 + 2 + StrLen(r.ver)
      [] req.typ = Tattach -> QidSIZE
      [] req.typ = Twalk -> 2 + QidSIZE * r.n
      [] req.typ \in {Tlopen, Tlcreate} -> QidSIZE + 4
      [] req.typ \in {Tread, Treaddir} -> 4 + r.n
      [] req.typ = Twrite -> 4
      [] req.typ = Tgetattr -> 153
      [] req.typ = Tstatfs -> 60
      [] OTHER -> 0

\* the server can perform req: the fids it names are bound, and the new fid
\* of a walk is free or is the walked fid itself
ServerCan(req, bound) ==
    CASE req.typ \in {Tversion, Tattach} -> TRUE
      [] req.typ = Twalk ->
           req.fid \in bound /\ (req.newfid \notin bound \/ req.newfid = req.fid)
      [] req.typ = Trenameat -> req.fid \in bound /\ req.newfid \in bound
      [] OTHER -> req.fid \in bound

\* the conformant success replies to req
Success(req, bound) ==
    IF ~ServerCan(req, bound) THEN {}
    ELSE CASE req.typ = Tversion ->
                { Resp(TRUE, 13 + VERSION_LEN, 13 + VERSION_LEN, Rversion, m, QidNone, VERSION)
                    : m \in SrvMsizes }
           [] req.typ = Tattach ->
                { Resp(TRUE, 20, 20, Rattach, 0, QidDir, "") }
           [] req.typ = Twalk ->
                { Resp(TRUE, 9 + QidSIZE * req.n, 9 + QidSIZE * req.n, Rwalk, req.n, q, "")
                    : q \in (IF req.n = 0 THEN {QidNone} ELSE Qids) }
           [] req.typ \in {Tlopen, Tlcreate} ->
                { Resp(TRUE, 24, 24, req.typ + 1, 0, q, "")
                    : q \in (IF req.typ = Tlcreate THEN {QidNew} ELSE {QidNone}) }
           [] req.typ = Tread ->
                { Resp(TRUE, 11 + k, 11 + k, Rread, k, QidNone, "") : k \in {0, req.n} }
           [] req.typ = Treaddir ->
                { Resp(TRUE, 11, 11, req.typ + 1, 0, QidNone, "") }
           [] req.typ = Twrite ->
                { Resp(TRUE, 11, 11, Rwrite, k, QidNone, "") : k \in {0, req.n} }
           [] req.typ = Tgetattr ->
                { Resp(TRUE, 160, 160, req.typ + 1, 0, QidNone, "") }
           [] req.typ = Tstatfs ->
                { Resp(TRUE, 67, 67, req.typ + 1, 0, QidNone, "") }
           [] OTHER ->
                { Resp(TRUE, HeaderSIZE, HeaderSIZE, req.typ + 1, 0, QidNone, "") }

\* replies that are well formed but report that the request was not performed
\* as asked: Rerror, a walk that stopped after k < n names, a version the
\* client did not ask for, a read longer than the count asked for
Refusals(req, bound) ==
    { Resp(FALSE, 11, 11, Rerror, 2, QidNone, "") }
    \cup (IF req.typ = Twalk /\ ServerCan(req, bound)
          THEN { Resp(FALSE, 9 + QidSIZE * k, 9 + QidSIZE * k, Rwalk, k, QidDir, "")
                   : k \in 0 .. (req.n - 1) }
          ELSE {})
    \cup (IF req.typ = Tversion
          THEN { Resp(FALSE, 13 + StrLen("unknown"), 13 + StrLen("unknown"), Rversion,
                      MSIZE, QidNone, "unknown") }
          ELSE {})
    \cup (IF req.typ = Tread
          THEN { Resp(FALSE, 12 + req.n, 12 + req.n, Rread, req.n + 1, QidNone, "") }
          ELSE {})

\* malformed completions: too few bytes written, a size above what was
\* written, a size above msize, another R-type, a reply cut after its header,
\* an Rerror without errno, an Rerror whose size field is below the header
Malformed(req, ms) ==
    { Resp(FALSE, 0, 0, 0, 0, QidNone, ""),
      Resp(FALSE, HeaderSIZE, HeaderSIZE + 1, req.typ + 1, 0, QidNone, ""),
      Resp(FALSE, ms + 1, ms + 1, req.typ + 1, 0, QidNone, ""),
      Resp(FALSE, HeaderSIZE, HeaderSIZE, Rflush, 0, QidNone, ""),
      Resp(FALSE, HeaderSIZE, HeaderSIZE, Rerror, 0, QidNone, ""),
      Resp(FALSE, HeaderSIZE, 4, Rerror, 0, QidNone, "") }
    \cup (IF req.typ \in {Tversion, Tattach, Twalk, Tlopen, Tlcreate, Tread,
                          Treaddir, Twrite, Tgetattr, Tstatfs}
          THEN { Resp(FALSE, HeaderSIZE, HeaderSIZE, req.typ + 1, 0, QidNone, VERSION) }
          ELSE {})

Completions(req, ms, bound) ==
    Success(req, bound) \cup Refusals(req, bound) \cup Malformed(req, ms)

\* the server's fid table after it received req and answered r
ServerAfter(req, r, bound) ==
    IF req.typ = Tclunk THEN bound \ {req.fid}
    ELSE IF r.eff /\ req.typ = Twalk THEN bound \cup {req.newfid}
    ELSE IF r.eff /\ req.typ = Tattach THEN bound \cup {req.fid}
    ELSE bound

----------------------------------------------------------------------------
(* client.rs: a client method after transact: header, R-type, payload *)

\* a version call that takes any version string the server answers
client_call_any_version(req, r, ms) ==
    LET t == transact(r.written, r.size, r.typ, ms)
    IN IF t # "ok" THEN t
       ELSE IF r.size < HeaderSIZE THEN "err"
       ELSE IF r.typ # req.typ + 1 THEN "err"
       ELSE IF r.size < HeaderSIZE + Need(req, r) THEN "err"
       ELSE "ok"

\* "ok", "err" or "panic" for the reply r to req (version, attach, walk,
\* lopen, ...: transact, get_header, the type check, then the payload reads)
client_call(req, r, ms) ==
    LET t == transact(r.written, r.size, r.typ, ms)
    IN IF t # "ok" THEN t
       ELSE IF r.size < HeaderSIZE THEN "err"
       ELSE IF r.typ # req.typ + 1 THEN "err"
       ELSE IF r.size < HeaderSIZE + Need(req, r) THEN "err"
       ELSE IF req.typ = Tversion /\ r.ver # VERSION THEN "err"
       ELSE "ok"

\* which Err a client method returns for the reply r: "none" (it returns Ok),
\* "9P" (transact lines 121-126: the reply is an Rerror, "9P error: errno=..")
\* or "protocol" (every other anyhow! of transact and of the method: response
\* too short, invalid response size, unexpected type, a missing field)
call_fault(req, r, ms) ==
    IF client_call(req, r, ms) # "err" THEN "none"
    ELSE IF /\ r.written >= HeaderSIZE
            /\ r.size <= r.written
            /\ r.size <= ms
            /\ r.typ = Rerror
    THEN "9P"
    ELSE "protocol"

\* Client9p::alloc_fid: fetch_add(1) on the AtomicU32 returns the old value
\* and stores the sum, which wraps
alloc_fid(counter) == counter
fetch_add(counter) == (counter + 1) % FidWrap

\* Client9p::root_fid
root_fid == 0

\* Client9p::read: count.min(msize.saturating_sub(7 + 4))
read_count(count, ms) == Min(count, IF ms < 11 THEN 0 ELSE ms - 11)

\* a poll loop that returns while the chain is still on the queue
spin_poll_pending(q) == q

\* the completion consumed: spin_poll returns once the chain at the head of
\* the queue is used, and the chain leaves the queue
spin_poll(q) == Tail(q)

----------------------------------------------------------------------------
(* State *)

VARIABLES
    pc,              \* where the daemon is: a call site, "idle", "respond", ...
    waiting,         \* transact has submitted its chain and polls for it
    queue,           \* the chains submitted to the transport queue and not yet used
    cur,             \* the locals of the handler being run
    msize,           \* Client9p.msize
    fid_counter,     \* Client9p.fid_counter
    allocs,          \* history: the number of alloc_fid calls so far
    root_qid,        \* Scheme9p.root_qid
    handles,         \* Scheme9p.handles: handle id -> Handle
    next_handle,     \* Scheme9p.next_handle
    srv_bound,       \* server: the fids bound to an object
    srv_msize,       \* server: the msize it answered in Rversion (0: none yet)
    clunks,          \* history: the number of Tclunk submitted per fid (2: two or more)
    closed,          \* history: the fids of the handles on_close removed
    partial,         \* history: new fids of walks that returned fewer QIDs than
                     \* names and for which no Tclunk was submitted since
    tx,              \* transact taken alone: its inputs and its outcome
    srv_version,     \* history: the version string of the reply to Tversion
    sent,            \* history: the types of the first two requests submitted
    conv,            \* the flag conversions taken alone: the flags and the results
    fault,           \* history: how the handler's last call other than clunk failed
    rd,              \* getdents taken alone: the cookie, the entries and the output
    wire,            \* the codec taken alone: the values, the bytes and the decoding
    unit             \* next_tag, read_mount_tag taken alone: the inputs, the results

vars == <<pc, waiting, queue, cur, msize, fid_counter, allocs, root_qid, handles,
          next_handle, srv_bound, srv_msize, clunks, closed, partial, tx,
          srv_version, sent, conv, fault, rd, wire, unit>>

EmptyCur ==
    [op |-> "none", id |-> 0, path |-> <<>>, new_path |-> <<>>, flags |-> 0,
     fid |-> NoField, fid2 |-> NoField, qid |-> QidNone, opened |-> FALSE,
     renamed |-> FALSE, len |-> 0, data |-> 0, code |-> "none", val |-> 0,
     gid |-> 0, str |-> <<>>]

TxIdle == [req |-> 0, written |-> 0, size |-> 0, typ |-> 0, n |-> 0,
           tout |-> "idle", out |-> "idle"]

ConvIdle == [flags |-> 0, lopen |-> NoField, lcreate |-> NoField]

\* getdents, and the codec, when they are not the part taken alone
StageIdle == [stage |-> "idle"]

\* struct Handle
Handle(fid, path, qid, flags) ==
    [fid |-> fid, path |-> path, qid |-> qid, flags |-> flags, dir_offset |-> 0]

\* BTreeMap::insert / BTreeMap::remove on the handle table
handles_insert(h, id, v) == [i \in DOMAIN h \cup {id} |-> IF i = id THEN v ELSE h[i]]
handles_remove(h, id) == [i \in DOMAIN h \ {id} |-> h[i]]

\* the inputs of the scheme requests
\* the opens that are requested: a path with the flags it is opened with
OpenInputs ==
    { <<P_empty, O_STAT>>, <<P_a, O_STAT>>,
      <<P_a, O_RDONLY>>, <<P_abx, O_RDONLY>>,
      <<P_a, O_DIRECTORY + O_RDONLY>>,
      <<P_a, O_CREAT + O_WRONLY + 420>>, <<P_abx, O_CREAT + O_WRONLY + 420>>,
      <<P_a, O_CREAT + O_DIRECTORY + O_RDONLY + 493>> }
\* ctx.gid of the caller of open; open reads it on the create path only
\* (line 175), so the frame of another open does not keep it
CallerGids == {0, 1000}
BufLens == {0, 1, MSIZE}
FcntlFlags == {O_RDONLY, O_WRONLY}
\* the ids a request may name: the open handles, the id handed out last
\* (possibly closed since) and an id never handed out
HandleIds == DOMAIN handles \cup {next_handle} \cup ({next_handle - 1} \ {0})
SimpleOps == {"fstat", "fsync", "getdents", "fchmod"}

\* the T-message of the one client call of a single-call handler
SimpleT(op) ==
    CASE op = "fstat" -> Tgetattr
      [] op = "fstatvfs" -> Tstatfs
      [] op = "fsync" -> Tfsync
      [] op = "getdents" -> Treaddir
      [] op = "unlinkat" -> Tunlinkat
      [] OTHER -> Tsetattr

Init ==
    /\ pc = "version"
    /\ waiting = FALSE
    /\ queue = <<>>
    /\ cur = EmptyCur
    /\ msize = MSIZE
    /\ fid_counter = 1
    /\ allocs = 0
    /\ root_qid = QidNone
    /\ handles = <<>>
    /\ next_handle = 1
    /\ srv_bound = {}
    /\ srv_msize = 0
    /\ clunks = [f \in 0 .. FidWrap - 1 |-> 0]
    /\ closed = {}
    /\ partial = {}
    /\ tx = TxIdle
    /\ srv_version = ""
    /\ sent = <<>>
    /\ conv = ConvIdle
    /\ fault = "none"
    /\ rd = StageIdle
    /\ wire = StageIdle
    /\ unit = StageIdle

----------------------------------------------------------------------------
(* The request each call site builds (client.rs, MessageBuilder) *)

CallSites ==
    {"version", "attach", "open_walk", "open_walk_clunk", "open_clone",
     "open_pwalk", "open_pwalk_clunk", "open_lcreate", "open_isdir_clunk",
     "open_lopen", "open_lopen_clunk", "close_clunk", "read", "write",
     "ren_walk1", "ren_walk2", "ren_walk2_clunk", "ren_renameat",
     "ren_clunk1", "ren_clunk2", "simple"}

\* a conversion for lopen that forwards the create bit as to_9p_flags does
to_9p_lopen_flags_create(flags) ==
    LET acc == AccMode(flags)
        base == IF acc = O_WRONLY THEN P9_WRONLY
                ELSE IF acc = O_RDWR THEN P9_RDWR
                ELSE P9_RDONLY
    IN base + (IF HasFlag(flags, O_TRUNC) THEN P9_TRUNC ELSE 0)
            + (IF HasFlag(flags, O_CREAT) THEN P9_CREATE ELSE 0)

\* Scheme9p::to_9p_lopen_flags
to_9p_lopen_flags(flags) ==
    LET acc == AccMode(flags)
        base == IF acc = O_WRONLY THEN P9_WRONLY
                ELSE IF acc = O_RDWR THEN P9_RDWR
                ELSE P9_RDONLY
    IN base + (IF HasFlag(flags, O_TRUNC) THEN P9_TRUNC ELSE 0)

\* Scheme9p::to_9p_flags
to_9p_flags(flags) ==
    to_9p_lopen_flags(flags) + (IF HasFlag(flags, O_CREAT) THEN P9_CREATE ELSE 0)

T_walk(fid, new_fid, names) ==
    Req(Twalk, fid, new_fid, Len(names),
        put_names(put_u16(put_u32(put_u32(builder_new))), names, 1))

T_clunk(fid) == Req(Tclunk, fid, NoField, 0, put_u32(builder_new))

\* scheme.rs line 171: (flags & 0o7777) as u32 | 0o100000; the two masks share
\* no bit, so the or is a sum
lcreate_mode(flags) == (flags % (PERM_MASK + 1)) + S_IFREG

RequestAt(site, c) ==
    CASE site = "version" ->
           Req(Tversion, NoField, NoField, msize,
               put_strn(put_u32(builder_new), VERSION_LEN))
      [] site = "attach" ->
           Req(Tattach, root_fid, NOFID, 0,
               put_u32(put_strn(put_strn(put_u32(put_u32(builder_new)), 0), 9)))
      [] site = "open_walk" -> T_walk(root_fid, c.fid, components(c.path))
      [] site = "open_clone" -> T_walk(root_fid, c.fid, <<>>)
      [] site = "open_pwalk" -> T_walk(root_fid, c.fid, components(parent_of(c.path)))
      [] site \in {"open_walk_clunk", "open_pwalk_clunk", "open_isdir_clunk",
                   "open_lopen_clunk", "close_clunk", "ren_walk2_clunk",
                   "ren_clunk1"} -> T_clunk(c.fid)
      [] site = "ren_clunk2" -> T_clunk(c.fid2)
      [] site = "open_lcreate" ->
           [Req(Tlcreate, c.fid, NoField, to_9p_flags(c.flags),
                put_u32(put_u32(put_u32(put_str(put_u32(builder_new), name_of(c.path))))))
              EXCEPT !.mode = lcreate_mode(c.flags), !.gid = c.gid]
      [] site = "open_lopen" ->
           Req(Tlopen, c.fid, NoField, to_9p_lopen_flags(c.flags),
               put_u32(put_u32(builder_new)))
      [] site = "read" ->
           Req(Tread, c.fid, NoField, read_count(c.len, msize),
               put_u32(put_u64(put_u32(builder_new))))
      [] site = "write" ->
           Req(Twrite, c.fid, NoField, c.len,
               put_data(put_u64(put_u32(builder_new)), c.len))
      [] site = "ren_walk1" -> T_walk(root_fid, c.fid, components(parent_of(c.path)))
      [] site = "ren_walk2" -> T_walk(root_fid, c.fid2, components(parent_of(c.new_path)))
      [] site = "ren_renameat" ->
           Req(Trenameat, c.fid, c.fid2, 0,
               put_str(put_u32(put_str(put_u32(builder_new), name_of(c.path))),
                       name_of(c.new_path)))
      [] site = "simple" ->
           Req(SimpleT(c.op), c.fid, NoField, 0, put_u32(builder_new))

----------------------------------------------------------------------------
(* client.rs transact: submission and completion *)

\* queue.send(chain): the request of the current call site goes on the queue
Submit ==
    /\ pc \in CallSites
    /\ ~waiting
    /\ LET req == RequestAt(pc, cur)
       IN /\ queue' = Append(queue, req)
          /\ clunks' = IF req.typ = Tclunk
                       THEN [clunks EXCEPT ![req.fid] = Min(@ + 1, 2)]
                       ELSE clunks
          /\ partial' = IF req.typ = Tclunk THEN partial \ {req.fid} ELSE partial
          /\ sent' = IF Len(sent) < 2 THEN Append(sent, req.typ) ELSE sent
    /\ waiting' = TRUE
    /\ UNCHANGED <<pc, cur, msize, fid_counter, allocs, root_qid, handles,
                   next_handle, srv_bound, srv_msize, closed, tx, srv_version, conv,
                      fault, rd, wire, unit>>

\* Ready: transact polls for the chain of call site `site`.  Complete: spin_poll
\* returned, the device having answered r, and the client method does not panic
Ready(site) ==
    /\ pc = site
    /\ waiting
    /\ queue # <<>>

Complete(r) ==
    /\ client_call(Head(queue), r, msize) # "panic"
    /\ queue' = spin_poll(queue)
    /\ waiting' = FALSE
    /\ srv_bound' = ServerAfter(Head(queue), r, srv_bound)
    /\ fault' = IF Head(queue).typ = Tclunk THEN fault
                ELSE call_fault(Head(queue), r, msize)

Outcome(r) == client_call(Head(queue), r, msize)

\* the slice resp_dma[7..size] panics: the daemon is gone, and with it the
\* handler's locals and the handle table
Panic ==
    /\ pc \in CallSites
    /\ waiting
    /\ queue # <<>>
    /\ \E r \in Completions(Head(queue), msize, srv_bound) :
         /\ client_call(Head(queue), r, msize) = "panic"
         /\ srv_bound' = ServerAfter(Head(queue), r, srv_bound)
    /\ pc' = "panicked"
    /\ queue' = spin_poll(queue)
    /\ waiting' = FALSE
    /\ cur' = EmptyCur
    /\ handles' = <<>>
    /\ UNCHANGED <<msize, fid_counter, allocs, root_qid, next_handle,
                   srv_msize, clunks, closed, partial, tx, srv_version, sent, conv,
                      fault, rd, wire, unit>>

\* the handler goes on to call site p with locals c
Goto(p, c) ==
    /\ pc' = p
    /\ cur' = c
    /\ UNCHANGED <<handles, next_handle, closed>>

\* what is left of a handler's frame when it returns: the request it served
\* (op, id, the buffer length), the length of the data the client call gave
\* it and the result; its other locals are dropped
Returned(c, code, val) ==
    [EmptyCur EXCEPT !.op = c.op, !.id = c.id, !.len = c.len, !.data = c.data,
                     !.str = c.str, !.code = code, !.val = val]

\* the handler returns: handle_sync has the result, the response is not yet written
Return(c, code, val) == Goto("respond", Returned(c, code, val))

Static == <<msize, root_qid, srv_msize, clunks, tx, srv_version, sent, conv, rd, wire, unit>>

----------------------------------------------------------------------------
(* main.rs: startup *)

\* Client9p::version keeps self.msize: the msize of Rversion is read into
\* _msize and dropped
adopt_msize(own, answered) == own

Version_Done ==
    /\ Ready("version")
    /\ \E r \in Completions(Head(queue), msize, srv_bound) :
        /\ Complete(r)
        /\ IF Outcome(r) = "ok"
           THEN /\ msize' = adopt_msize(msize, r.n)
                /\ srv_msize' = r.n
                /\ pc' = "attach"
           ELSE /\ pc' = "dead"
                /\ UNCHANGED <<msize, srv_msize>>
        /\ srv_version' = r.ver
        /\ UNCHANGED <<cur, fid_counter, allocs, root_qid, handles, next_handle,
                       clunks, closed, partial, tx, sent, conv, rd, wire, unit>>

Attach_Done ==
    /\ Ready("attach")
    /\ \E r \in Completions(Head(queue), msize, srv_bound) :
        /\ Complete(r)
        /\ IF Outcome(r) = "ok"
           THEN /\ root_qid' = r.qid
                /\ pc' = "idle"
           ELSE /\ pc' = "dead"
                /\ UNCHANGED root_qid
        /\ UNCHANGED <<cur, msize, fid_counter, allocs, handles, next_handle,
                       srv_msize, clunks, closed, partial, tx, srv_version, sent, conv,
                          rd, wire, unit>>

----------------------------------------------------------------------------
(* scheme.rs: open *)

\* an open that does not advance next_handle
OpenInsert_same_id(c) ==
    LET handle_id == next_handle
    IN /\ next_handle' = next_handle
       /\ handles' = handles_insert(handles, handle_id,
                                    Handle(c.fid, c.path, c.qid, c.flags))
       /\ closed' = closed
       /\ pc' = "respond"
       /\ cur' = Returned(c, "OK", handle_id)

\* lines 206-221: the handle is inserted under next_handle
OpenInsert(c) ==
    LET handle_id == next_handle
    IN /\ next_handle' = next_handle + 1
       /\ handles' = handles_insert(handles, handle_id,
                                    Handle(c.fid, c.path, c.qid, c.flags))
       /\ closed' = closed
       /\ pc' = "respond"
       /\ cur' = Returned(c, "OK", handle_id)

\* an open that sends Tlopen whether or not lcreate has opened the fid
OpenResolved_lopen_again(c) ==
    IF ~HasFlag(c.flags, O_STAT) /\ ~HasFlag(c.flags, O_DIRECTORY) /\ is_dir(c.qid)
    THEN Goto("open_isdir_clunk", c)
    ELSE IF ~HasFlag(c.flags, O_STAT)
    THEN Goto("open_lopen", c)
    ELSE OpenInsert(c)

\* an open that refuses a directory unless it is stat-only, directory flag or not
OpenResolved_isdir_strict(c) ==
    IF ~HasFlag(c.flags, O_STAT) /\ is_dir(c.qid)
    THEN Goto("open_isdir_clunk", c)
    ELSE IF ~HasFlag(c.flags, O_STAT) /\ ~c.opened
    THEN Goto("open_lopen", c)
    ELSE OpenInsert(c)

\* an open that refuses the directory flag on an object that is no directory
OpenResolved_notdir(c) ==
    IF ~HasFlag(c.flags, O_STAT) /\ ~HasFlag(c.flags, O_DIRECTORY) /\ is_dir(c.qid)
    THEN Goto("open_isdir_clunk", c)
    ELSE IF HasFlag(c.flags, O_DIRECTORY) /\ ~is_dir(c.qid)
    THEN Return(c, "ENOTDIR", 0)
    ELSE IF ~HasFlag(c.flags, O_STAT) /\ ~c.opened
    THEN Goto("open_lopen", c)
    ELSE OpenInsert(c)

\* lines 187-204: the directory check, then lopen unless O_STAT or created
OpenResolved(c) ==
    IF ~HasFlag(c.flags, O_STAT) /\ ~HasFlag(c.flags, O_DIRECTORY) /\ is_dir(c.qid)
    THEN Goto("open_isdir_clunk", c)
    ELSE IF ~HasFlag(c.flags, O_STAT) /\ ~c.opened
    THEN Goto("open_lopen", c)
    ELSE OpenInsert(c)

\* lines 151-168 and 184: walk_path returned Err
OpenNotFound(c) ==
    IF HasFlag(c.flags, O_CREAT)
    THEN /\ fid_counter' = fetch_add(fid_counter) /\ allocs' = allocs + 1
         /\ Goto(IF parent_of(c.path) = <<>> THEN "open_clone" ELSE "open_pwalk",
                 [c EXCEPT !.fid = alloc_fid(fid_counter)])
    ELSE /\ Return(c, "ENOENT", 0)
         /\ UNCHANGED <<fid_counter, allocs>>

Open_Start ==
    \E inp \in OpenInputs, gid \in CallerGids :
      LET path == inp[1]
          flags == inp[2]
      IN
        /\ pc = "idle"
        /\ Cardinality(DOMAIN handles) < MaxHandle
        /\ allocs + (IF HasFlag(flags, O_CREAT) THEN 2 ELSE 1) <= MaxAllocs
        /\ fid_counter' = fetch_add(fid_counter) /\ allocs' = allocs + 1
        /\ Goto("open_walk", [EmptyCur EXCEPT !.op = "open", !.path = path,
                                              !.flags = flags,
                                              !.gid = IF HasFlag(flags, O_CREAT)
                                                      THEN gid ELSE 0,
                                              !.fid = alloc_fid(fid_counter)])
        /\ UNCHANGED <<waiting, queue, srv_bound, partial, fault>>
        /\ UNCHANGED Static

\* walk_path, lines 79-94, and the match of open on its result
Open_WalkDone ==
    /\ Ready("open_walk")
    /\ \E r \in Completions(Head(queue), msize, srv_bound) :
        /\ Complete(r)
        /\ IF Outcome(r) = "err"
           THEN OpenNotFound(cur) /\ UNCHANGED partial
           ELSE IF Head(queue).n > 0 /\ r.n # Head(queue).n
           THEN /\ Goto("open_walk_clunk", cur)
                /\ partial' = partial \cup {cur.fid}
                /\ UNCHANGED <<fid_counter, allocs>>
           ELSE /\ OpenResolved([cur EXCEPT !.qid = IF r.n = 0 THEN root_qid ELSE r.qid])
                /\ UNCHANGED <<fid_counter, allocs, partial>>
        /\ UNCHANGED Static

Open_WalkClunkDone ==
    /\ Ready("open_walk_clunk")
    /\ \E r \in Completions(Head(queue), msize, srv_bound) :
        /\ Complete(r)
        /\ OpenNotFound(cur)
        /\ UNCHANGED partial
        /\ UNCHANGED Static

\* lines 161-165: the zero-name walk that clones the root fid
Open_CloneDone ==
    /\ Ready("open_clone")
    /\ \E r \in Completions(Head(queue), msize, srv_bound) :
        /\ Complete(r)
        /\ IF Outcome(r) = "err"
           THEN Return(cur, "EIO", 0)
           ELSE Goto("open_lcreate", [cur EXCEPT !.qid = root_qid])
        /\ UNCHANGED <<fid_counter, allocs, partial>>
        /\ UNCHANGED Static

\* line 167: walk_path(parent_path)?
Open_PwalkDone ==
    /\ Ready("open_pwalk")
    /\ \E r \in Completions(Head(queue), msize, srv_bound) :
        /\ Complete(r)
        /\ IF Outcome(r) = "err"
           THEN Return(cur, "ENOENT", 0) /\ UNCHANGED partial
           ELSE IF Head(queue).n > 0 /\ r.n # Head(queue).n
           THEN /\ Goto("open_pwalk_clunk", cur)
                /\ partial' = partial \cup {cur.fid}
           ELSE /\ Goto("open_lcreate", [cur EXCEPT !.qid = IF r.n = 0 THEN root_qid ELSE r.qid])
                /\ UNCHANGED partial
        /\ UNCHANGED <<fid_counter, allocs>>
        /\ UNCHANGED Static

Open_PwalkClunkDone ==
    /\ Ready("open_pwalk_clunk")
    /\ \E r \in Completions(Head(queue), msize, srv_bound) :
        /\ Complete(r)
        /\ Return(cur, "ENOENT", 0)
        /\ UNCHANGED <<fid_counter, allocs, partial>>
        /\ UNCHANGED Static

\* lines 171-182: lcreate, whose error is returned as EIO
Open_LcreateDone ==
    /\ Ready("open_lcreate")
    /\ \E r \in Completions(Head(queue), msize, srv_bound) :
        /\ Complete(r)
        /\ IF Outcome(r) = "err"
           THEN Return(cur, "EIO", 0)
           ELSE OpenResolved([cur EXCEPT !.qid = r.qid, !.opened = TRUE])
        /\ UNCHANGED <<fid_counter, allocs, partial>>
        /\ UNCHANGED Static

Open_IsdirClunkDone ==
    /\ Ready("open_isdir_clunk")
    /\ \E r \in Completions(Head(queue), msize, srv_bound) :
        /\ Complete(r)
        /\ Return(cur, "EISDIR", 0)
        /\ UNCHANGED <<fid_counter, allocs, partial>>
        /\ UNCHANGED Static

\* lines 196-204
\* an open that returns EIO on a failed lopen and leaves the fid bound
Open_LopenDone_no_clunk ==
    /\ Ready("open_lopen")
    /\ \E r \in Completions(Head(queue), msize, srv_bound) :
        /\ Complete(r)
        /\ IF Outcome(r) = "err"
           THEN Return(cur, "EIO", 0)
           ELSE OpenInsert(cur)
        /\ UNCHANGED <<fid_counter, allocs, partial>>
        /\ UNCHANGED Static

Open_LopenDone ==
    /\ Ready("open_lopen")
    /\ \E r \in Completions(Head(queue), msize, srv_bound) :
        /\ Complete(r)
        /\ IF Outcome(r) = "err"
           THEN Goto("open_lopen_clunk", cur)
           ELSE OpenInsert(cur)
        /\ UNCHANGED <<fid_counter, allocs, partial>>
        /\ UNCHANGED Static

Open_LopenClunkDone ==
    /\ Ready("open_lopen_clunk")
    /\ \E r \in Completions(Head(queue), msize, srv_bound) :
        /\ Complete(r)
        /\ Return(cur, "EIO", 0)
        /\ UNCHANGED <<fid_counter, allocs, partial>>
        /\ UNCHANGED Static

----------------------------------------------------------------------------
(* scheme.rs: on_close, read, write *)

\* the on_close of a scheme that answers an unknown id with EBADFD
Close_Start_unknown_is_error ==
    \E id \in HandleIds :
        /\ pc = "idle"
        /\ IF id \in DOMAIN handles
           THEN /\ handles' = handles_remove(handles, id)
                /\ closed' = closed \cup {handles[id].fid}
                /\ pc' = "close_clunk"
                /\ cur' = [EmptyCur EXCEPT !.op = "close", !.id = id,
                                           !.fid = handles[id].fid]
           ELSE Return([EmptyCur EXCEPT !.op = "close", !.id = id], "EBADFD", 0)
        /\ UNCHANGED <<waiting, queue, srv_bound, fid_counter, allocs, next_handle, partial, fault>>
        /\ UNCHANGED Static

\* main.rs line 127: an OnClose request; no response is written for it.
\* lines 137-142: with no handle under the id the body of the if let is
\* skipped and on_close has returned ("close_ret")
Close_Start ==
    \E id \in HandleIds :
        /\ pc = "idle"
        /\ IF id \in DOMAIN handles
           THEN /\ handles' = handles_remove(handles, id)
                /\ closed' = closed \cup {handles[id].fid}
                /\ pc' = "close_clunk"
                /\ cur' = [EmptyCur EXCEPT !.op = "close", !.id = id,
                                           !.fid = handles[id].fid,
                                           !.flags = handles[id].flags]
           ELSE /\ pc' = "close_ret"
                /\ cur' = [EmptyCur EXCEPT !.op = "close", !.id = id]
                /\ UNCHANGED <<handles, closed>>
        /\ UNCHANGED <<waiting, queue, srv_bound, fid_counter, allocs, next_handle, partial, fault>>
        /\ UNCHANGED Static

\* main.rs: the loop goes on to the next request after on_close
Close_Return ==
    /\ pc = "close_ret"
    /\ Goto("idle", EmptyCur)
    /\ UNCHANGED <<waiting, queue, srv_bound, fid_counter, allocs, partial, fault>>
    /\ UNCHANGED Static

\* let _ = self.client.clunk(handle.fid)
Close_Done ==
    /\ Ready("close_clunk")
    /\ \E r \in Completions(Head(queue), msize, srv_bound) :
        /\ Complete(r)
        /\ Goto("idle", EmptyCur)
        /\ UNCHANGED <<fid_counter, allocs, partial>>
        /\ UNCHANGED Static

\* the read of a scheme that leaves the directory case to the server
Read_Start_asks_server ==
    \E id \in HandleIds, len \in BufLens, fcntl_flags \in FcntlFlags :
        /\ pc = "idle"
        /\ LET c == [EmptyCur EXCEPT !.op = "read", !.id = id, !.len = len]
           IN IF id \notin DOMAIN handles THEN Return(c, "EBADFD", 0)
              ELSE IF AccMode(fcntl_flags) \notin {O_RDONLY, O_RDWR}
              THEN Return(c, "EBADF", 0)
              ELSE Goto("read", [c EXCEPT !.fid = handles[id].fid])
        /\ UNCHANGED <<waiting, queue, srv_bound, fid_counter, allocs, partial, fault>>
        /\ UNCHANGED Static

\* lines 224-241
Read_Start ==
    \E id \in HandleIds, len \in BufLens, fcntl_flags \in FcntlFlags :
        /\ pc = "idle"
        /\ LET c == [EmptyCur EXCEPT !.op = "read", !.id = id, !.len = len]
           IN IF id \notin DOMAIN handles THEN Return(c, "EBADFD", 0)
              ELSE IF is_dir(handles[id].qid) THEN Return(c, "EISDIR", 0)
              ELSE IF AccMode(fcntl_flags) \notin {O_RDONLY, O_RDWR}
              THEN Return(c, "EBADF", 0)
              ELSE Goto("read", [c EXCEPT !.fid = handles[id].fid])
        /\ UNCHANGED <<waiting, queue, srv_bound, fid_counter, allocs, partial, fault>>
        /\ UNCHANGED Static

\* lines 242-251: cur.data is the length of the Vec client.read returned
\* the read of a scheme that returns the length of the data the server sent
Read_Done_returns_all ==
    /\ Ready("read")
    /\ \E r \in Completions(Head(queue), msize, srv_bound) :
        /\ Complete(r)
        /\ IF Outcome(r) = "err"
           THEN Return(cur, "EIO", 0)
           ELSE Return([cur EXCEPT !.data = r.n], "OK", r.n)
        /\ UNCHANGED <<fid_counter, allocs, partial>>
        /\ UNCHANGED Static

Read_Done ==
    /\ Ready("read")
    /\ \E r \in Completions(Head(queue), msize, srv_bound) :
        /\ Complete(r)
        /\ IF Outcome(r) = "err"
           THEN Return(cur, "EIO", 0)
           ELSE Return([cur EXCEPT !.data = r.n], "OK", Min(r.n, cur.len))
        /\ UNCHANGED <<fid_counter, allocs, partial>>
        /\ UNCHANGED Static

Write_Start ==
    \E id \in HandleIds, len \in BufLens :
        /\ pc = "idle"
        /\ LET c == [EmptyCur EXCEPT !.op = "write", !.id = id, !.len = len]
           IN IF id \notin DOMAIN handles THEN Return(c, "EBADFD", 0)
              ELSE IF is_dir(handles[id].qid) THEN Return(c, "EISDIR", 0)
              ELSE Goto("write", [c EXCEPT !.fid = handles[id].fid])
        /\ UNCHANGED <<waiting, queue, srv_bound, fid_counter, allocs, partial, fault>>
        /\ UNCHANGED Static

Write_Done ==
    /\ Ready("write")
    /\ \E r \in Completions(Head(queue), msize, srv_bound) :
        /\ Complete(r)
        /\ IF Outcome(r) = "err"
           THEN Return(cur, "EIO", 0)
           ELSE Return([cur EXCEPT !.data = r.n], "OK", r.n)
        /\ UNCHANGED <<fid_counter, allocs, partial>>
        /\ UNCHANGED Static

----------------------------------------------------------------------------
(* scheme.rs: frename *)

\* lines 451-470: cur.fid is old_dir_fid, cur.fid2 is new_dir_fid
Ren_Start ==
    \E id \in HandleIds, new_path \in RenamePaths :
        /\ pc = "idle"
        /\ allocs + 2 <= MaxAllocs
        /\ LET c == [EmptyCur EXCEPT !.op = "frename", !.id = id, !.new_path = new_path]
           IN IF id \notin DOMAIN handles
              THEN Return(c, "EBADFD", 0) /\ UNCHANGED <<fid_counter, allocs>>
              ELSE /\ fid_counter' = fetch_add(fid_counter) /\ allocs' = allocs + 1
                   /\ Goto("ren_walk1", [c EXCEPT !.path = handles[id].path,
                                                  !.fid = alloc_fid(fid_counter)])
        /\ UNCHANGED <<waiting, queue, srv_bound, partial, fault>>
        /\ UNCHANGED Static

\* lines 469-477: only an Err of walk is looked at, not the number of QIDs
Ren_Walk1Done ==
    /\ Ready("ren_walk1")
    /\ \E r \in Completions(Head(queue), msize, srv_bound) :
        /\ Complete(r)
        /\ IF Outcome(r) = "err"
           THEN Return(cur, "ENOENT", 0) /\ UNCHANGED <<fid_counter, allocs, partial>>
           ELSE /\ fid_counter' = fetch_add(fid_counter) /\ allocs' = allocs + 1
                /\ Goto("ren_walk2", [cur EXCEPT !.fid2 = alloc_fid(fid_counter)])
                /\ partial' = IF r.n < Head(queue).n THEN partial \cup {cur.fid} ELSE partial
        /\ UNCHANGED Static

\* a frename that returns at once when the second parent walk fails
Ren_Walk2Done_no_clunk ==
    /\ Ready("ren_walk2")
    /\ \E r \in Completions(Head(queue), msize, srv_bound) :
        /\ Complete(r)
        /\ IF Outcome(r) = "err"
           THEN Return(cur, "ENOENT", 0) /\ UNCHANGED partial
           ELSE /\ Goto("ren_renameat", cur)
                /\ partial' = IF r.n < Head(queue).n THEN partial \cup {cur.fid2} ELSE partial
        /\ UNCHANGED <<fid_counter, allocs>>
        /\ UNCHANGED Static

\* lines 479-483
Ren_Walk2Done ==
    /\ Ready("ren_walk2")
    /\ \E r \in Completions(Head(queue), msize, srv_bound) :
        /\ Complete(r)
        /\ IF Outcome(r) = "err"
           THEN Goto("ren_walk2_clunk", cur) /\ UNCHANGED partial
           ELSE /\ Goto("ren_renameat", cur)
                /\ partial' = IF r.n < Head(queue).n THEN partial \cup {cur.fid2} ELSE partial
        /\ UNCHANGED <<fid_counter, allocs>>
        /\ UNCHANGED Static

Ren_Walk2ClunkDone ==
    /\ Ready("ren_walk2_clunk")
    /\ \E r \in Completions(Head(queue), msize, srv_bound) :
        /\ Complete(r)
        /\ Return(cur, "ENOENT", 0)
        /\ UNCHANGED <<fid_counter, allocs, partial>>
        /\ UNCHANGED Static

\* line 486: the result of renameat is kept until both clunks are done
Ren_RenameatDone ==
    /\ Ready("ren_renameat")
    /\ \E r \in Completions(Head(queue), msize, srv_bound) :
        /\ Complete(r)
        /\ Goto("ren_clunk1", [cur EXCEPT !.renamed = (Outcome(r) = "ok")])
        /\ UNCHANGED <<fid_counter, allocs, partial>>
        /\ UNCHANGED Static

Ren_Clunk1Done ==
    /\ Ready("ren_clunk1")
    /\ \E r \in Completions(Head(queue), msize, srv_bound) :
        /\ Complete(r)
        /\ Goto("ren_clunk2", cur)
        /\ UNCHANGED <<fid_counter, allocs, partial>>
        /\ UNCHANGED Static

\* the Ren_Clunk2Done of a frename that stores the new path whatever renameat
\* returned
Ren_Clunk2Done_always_moves ==
    /\ Ready("ren_clunk2")
    /\ \E r \in Completions(Head(queue), msize, srv_bound) :
        /\ Complete(r)
        /\ handles' = IF cur.id \in DOMAIN handles
                       THEN [handles EXCEPT ![cur.id].path = cur.new_path]
                       ELSE handles
        /\ pc' = "respond"
        /\ cur' = Returned(cur, IF cur.renamed THEN "OK" ELSE "EIO", 0)
        /\ UNCHANGED <<next_handle, closed>>
        /\ UNCHANGED <<fid_counter, allocs, partial>>
        /\ UNCHANGED Static

\* lines 490-502
Ren_Clunk2Done ==
    /\ Ready("ren_clunk2")
    /\ \E r \in Completions(Head(queue), msize, srv_bound) :
        /\ Complete(r)
        /\ IF cur.renamed
           THEN /\ handles' = IF cur.id \in DOMAIN handles
                              THEN [handles EXCEPT ![cur.id].path = cur.new_path]
                              ELSE handles
                /\ pc' = "respond"
                /\ cur' = Returned(cur, "OK", 0)
                /\ UNCHANGED <<next_handle, closed>>
           ELSE Return(cur, "EIO", 0)
        /\ UNCHANGED <<fid_counter, allocs, partial>>
        /\ UNCHANGED Static

----------------------------------------------------------------------------
(* scheme.rs: fpath, which makes no client call *)

\* line 353: format!("/{}/{}", self.scheme_name, handle.path); lines 354-357:
\* the first min(bytes.len(), buf.len()) bytes are copied
fpath_copy(path, buflen) ==
    LET bytes == <<"/">> \o scheme_name \o <<"/">> \o path
    IN SubSeq(bytes, 1, Min(Len(bytes), buflen))

\* lines 350-358
Fpath ==
    \E id \in HandleIds, len \in BufLens :
        /\ pc = "idle"
        /\ LET c == [EmptyCur EXCEPT !.op = "fpath", !.id = id, !.len = len]
           IN IF id \notin DOMAIN handles THEN Return(c, "EBADFD", 0)
              ELSE Return([c EXCEPT !.str = fpath_copy(handles[id].path, len)], "OK",
                          Len(fpath_copy(handles[id].path, len)))
        /\ UNCHANGED <<waiting, queue, srv_bound, fid_counter, allocs, partial, fault>>
        /\ UNCHANGED Static

----------------------------------------------------------------------------
(* scheme.rs: the handlers that make one client call *)

Simple_Start ==
    \E id \in HandleIds, op \in SimpleOps :
        /\ pc = "idle"
        /\ LET c == [EmptyCur EXCEPT !.op = op, !.id = id]
           IN IF id \notin DOMAIN handles THEN Return(c, "EBADFD", 0)
              ELSE IF op = "getdents" /\ ~is_dir(handles[id].qid)
              THEN Return(c, "ENOTDIR", 0)
              ELSE Goto("simple", [c EXCEPT !.fid = handles[id].fid])
        /\ UNCHANGED <<waiting, queue, srv_bound, fid_counter, allocs, partial, fault>>
        /\ UNCHANGED Static

Simple_Done ==
    /\ Ready("simple")
    /\ \E r \in Completions(Head(queue), msize, srv_bound) :
        /\ Complete(r)
        /\ IF Outcome(r) = "err"
           THEN Return(cur, "EIO", 0)
           ELSE Return(cur, "OK", 0)
        /\ UNCHANGED <<fid_counter, allocs, partial>>
        /\ UNCHANGED Static

----------------------------------------------------------------------------
(* main.rs: the control loop *)

\* socket.write_response(response): the result of handle_sync is written and
\* the loop goes back to next_request
Respond ==
    /\ pc = "respond"
    /\ pc' = "idle"
    /\ cur' = EmptyCur
    /\ fault' = "none"
    /\ UNCHANGED <<waiting, queue, msize, fid_counter, allocs, root_qid, handles,
                   next_handle, srv_bound, srv_msize, clunks, closed,
                   partial, tx, srv_version, sent, conv, rd, wire, unit>>

Next ==
    \/ Submit
    \/ Panic
    \/ Version_Done
    \/ Attach_Done
    \/ Open_Start
    \/ Open_WalkDone
    \/ Open_WalkClunkDone
    \/ Open_CloneDone
    \/ Open_PwalkDone
    \/ Open_PwalkClunkDone
    \/ Open_LcreateDone
    \/ Open_IsdirClunkDone
    \/ Open_LopenDone
    \/ Open_LopenClunkDone
    \/ Close_Start
    \/ Close_Return
    \/ Close_Done
    \/ Read_Start
    \/ Read_Done
    \/ Write_Start
    \/ Write_Done
    \/ Ren_Start
    \/ Ren_Walk1Done
    \/ Ren_Walk2Done
    \/ Ren_Walk2ClunkDone
    \/ Ren_RenameatDone
    \/ Ren_Clunk1Done
    \/ Ren_Clunk2Done
    \/ Simple_Start
    \/ Simple_Done
    \/ Fpath
    \/ Respond

Spec == Init /\ [][Next]_vars

----------------------------------------------------------------------------
(* transact and the decoders taken alone, over the completions a device can
   produce: any written count, any size and type in the header *)

\* written counts and header sizes: around 0 and the header size, and around msize
TxVals == (0 .. MaxSmall) \cup ((MSIZE - MsizeSlack) .. (MSIZE + MsizeSlack))
TxReqs == {Twalk, Tread, Tclunk}

InitTransact ==
    /\ pc = "transact"
    /\ waiting = FALSE
    /\ queue = <<>>
    /\ cur = EmptyCur
    /\ msize = MSIZE
    /\ fid_counter = 1
    /\ allocs = 0
    /\ root_qid = QidNone
    /\ handles = <<>>
    /\ next_handle = 1
    /\ srv_bound = {}
    /\ srv_msize = 0
    /\ clunks = [f \in 0 .. FidWrap - 1 |-> 0]
    /\ closed = {}
    /\ partial = {}
    /\ srv_version = ""
    /\ sent = <<>>
    /\ conv = ConvIdle
    /\ fault = "none"
    /\ rd = StageIdle
    /\ wire = StageIdle
    /\ unit = StageIdle
    /\ \E q \in TxReqs, w \in TxVals, sz \in TxVals, k \in {0, 1} :
       \E t \in {Rerror, Rflush, q + 1} :
         tx = [req |-> q, written |-> w, size |-> sz, typ |-> t, n |-> k,
               tout |-> "none", out |-> "none"]

\* Client9p::transact on the completed chain
Tx_Transact ==
    /\ pc = "transact"
    /\ tx.tout = "none"
    /\ tx' = [tx EXCEPT !.tout = transact(tx.written, tx.size, tx.typ, msize)]
    /\ UNCHANGED <<pc, waiting, queue, cur, msize, fid_counter, allocs, root_qid, handles,
                   next_handle, srv_bound, srv_msize, clunks, closed, partial,
                   srv_version, sent, conv, fault, rd, wire, unit>>

\* the client method around it: get_header, the type check, the payload reads
Tx_Decode ==
    /\ pc = "transact"
    /\ tx.tout = "ok"
    /\ tx.out = "none"
    /\ tx' = [tx EXCEPT !.out =
                 client_call(Req(tx.req, 1, NoField, 1, 0),
                             Resp(FALSE, tx.written, tx.size, tx.typ, tx.n, QidNone, ""),
                             msize)]
    /\ UNCHANGED <<pc, waiting, queue, cur, msize, fid_counter, allocs, root_qid, handles,
                   next_handle, srv_bound, srv_msize, clunks, closed, partial,
                   srv_version, sent, conv, fault, rd, wire, unit>>

SpecTransact == InitTransact /\ [][Tx_Transact \/ Tx_Decode]_vars

----------------------------------------------------------------------------
(* to_9p_lopen_flags and to_9p_flags taken alone, over the combinations of the
   local open flags: an access mode or none, any of the create, truncate,
   directory and stat-only bits, with and without permission bits *)

InitFlags ==
    /\ pc = "convert"
    /\ waiting = FALSE
    /\ queue = <<>>
    /\ cur = EmptyCur
    /\ msize = MSIZE
    /\ fid_counter = 1
    /\ allocs = 0
    /\ root_qid = QidNone
    /\ handles = <<>>
    /\ next_handle = 1
    /\ srv_bound = {}
    /\ srv_msize = 0
    /\ clunks = [f \in 0 .. FidWrap - 1 |-> 0]
    /\ closed = {}
    /\ partial = {}
    /\ tx = TxIdle
    /\ srv_version = ""
    /\ sent = <<>>
    /\ fault = "none"
    /\ rd = StageIdle
    /\ wire = StageIdle
    /\ unit = StageIdle
    /\ \E acc \in {0, O_RDONLY, O_WRONLY, O_RDWR}, perm \in {0, 420} :
       \E c \in {0, O_CREAT}, t \in {0, O_TRUNC}, d \in {0, O_DIRECTORY}, s \in {0, O_STAT} :
         conv = [ConvIdle EXCEPT !.flags = acc + c + t + d + s + perm]

\* scheme.rs line 198: self.to_9p_lopen_flags(flags)
Conv_Lopen ==
    /\ pc = "convert"
    /\ conv.lopen = NoField
    /\ conv' = [conv EXCEPT !.lopen = to_9p_lopen_flags(conv.flags)]
    /\ UNCHANGED <<pc, waiting, queue, cur, msize, fid_counter, allocs, root_qid, handles,
                   next_handle, srv_bound, srv_msize, clunks, closed, partial, tx,
                   srv_version, sent, fault, rd, wire, unit>>

\* scheme.rs line 172: self.to_9p_flags(flags)
Conv_Lcreate ==
    /\ pc = "convert"
    /\ conv.lcreate = NoField
    /\ conv' = [conv EXCEPT !.lcreate = to_9p_flags(conv.flags)]
    /\ UNCHANGED <<pc, waiting, queue, cur, msize, fid_counter, allocs, root_qid, handles,
                   next_handle, srv_bound, srv_msize, clunks, closed, partial, tx,
                   srv_version, sent, fault, rd, wire, unit>>

SpecFlags == InitFlags /\ [][Conv_Lopen \/ Conv_Lcreate]_vars

----------------------------------------------------------------------------
(* Properties *)

HandleFids == { handles[i].fid : i \in DOMAIN handles }
AfterAttach ==
    pc \notin {"version", "attach", "dead", "transact", "convert", "codec", "getdents"}

\* C1: at most one 9P request is on the transport queue at any instant: a
\* request is submitted only when the queue is empty, and the queue holds a
\* request exactly while transact polls for it.
C1_OneInFlight ==
    /\ Len(queue) <= 1
    /\ waiting <=> (Len(queue) = 1)

\* C1 witness: the last clunk of a rename is in flight, alone on the queue,
\* after the two walks, the renameat and the first clunk were completed.
C1_Witness ==
    /\ pc = "ren_clunk2"
    /\ waiting
    /\ Len(queue) = 1
    /\ queue[1].typ = Tclunk

\* C2: once on_close has removed a handle and submitted its Tclunk, that
\* Tclunk is the only one the handle's fid has had over the whole run: no
\* other operation, before or after, submitted a Tclunk for that fid.
C2_ClunkExactlyOnce ==
    \A f \in closed :
        \/ pc = "close_clunk" /\ ~waiting /\ cur.fid = f
        \/ clunks[f] = 1

\* C3: when the adapter is between requests or about to write a response,
\* every fid bound on the server is the root fid or the fid of a live handle.
C3_NoFidLeak ==
    pc \in {"idle", "respond"} => srv_bound \subseteq ({root_fid} \cup HandleFids)

\* C4: after a walk that returned fewer QIDs than names, the next thing the
\* adapter does is submit the Tclunk of that walk's new fid.
C4_PartialWalkClunkedFirst ==
    \A f \in partial :
        /\ ~waiting
        /\ pc \in CallSites
        /\ RequestAt(pc, cur) = T_clunk(f)

\* C5: a response transact returns satisfies 7 <= size <= written <= msize.
C5_ResponseBounds ==
    tx.tout = "ok" =>
        /\ HeaderSIZE <= tx.size
        /\ tx.size <= tx.written
        /\ tx.written <= msize

\* C6: transact and the decoders end with a value or an error, never a panic.
C6_NoPanic ==
    /\ tx.tout # "panic"
    /\ tx.out # "panic"

\* C7: after the version handshake the client's msize is min(131072, msize').
C7_MsizeIsMin ==
    (AfterAttach \/ pc = "attach") /\ pc # "panicked" => msize = Min(MSIZE, srv_msize)

\* C8: client.read returns at most count bytes and at most msize - 11 bytes.
C8_ReadAtMostCount ==
    pc = "respond" /\ cur.op = "read" /\ cur.code = "OK" =>
        /\ cur.data <= cur.len
        /\ cur.data <= msize - 11

\* C9: every Twrite submitted has an encoded size of at most msize.
C9_TwriteFitsMsize ==
    \A i \in 1 .. Len(queue) : queue[i].typ = Twrite => queue[i].size <= msize

\* C10: after attach no request clunks, opens or creates on fid 0 or walks to
\* fid 0 as the new fid; fid 0 appears only as the source fid of a walk.
C10_RootFidUntouched ==
    AfterAttach =>
        \A i \in 1 .. Len(queue) :
            LET m == queue[i]
            IN /\ m.typ \in {Tclunk, Tlopen, Tlcreate} => m.fid # root_fid
               /\ m.newfid # root_fid
               /\ m.fid = root_fid => m.typ = Twalk

\* C11: a fid alloc_fid has just returned (the new fid of the walk the handler
\* is about to send) is neither the root fid 0 nor the all-ones NOFID.
C11_AllocNeverReserved ==
    /\ pc \in {"open_walk", "open_clone", "open_pwalk", "ren_walk1"} =>
         cur.fid \notin {root_fid, NOFID}
    /\ pc = "ren_walk2" => cur.fid2 \notin {root_fid, NOFID}

\* C12: the fid of every handle in the handle table is bound on the server.
C12_HandleFidBound == HandleFids \subseteq srv_bound


----------------------------------------------------------------------------
(* A session whose fid counter has wrapped *)

\* main.rs lines 120-132: the request loop alone, as it runs once the session is up
NextServing ==
    \/ Submit
    \/ Panic
    \/ Open_Start
    \/ Open_WalkDone
    \/ Open_WalkClunkDone
    \/ Open_CloneDone
    \/ Open_PwalkDone
    \/ Open_PwalkClunkDone
    \/ Open_LcreateDone
    \/ Open_IsdirClunkDone
    \/ Open_LopenDone
    \/ Open_LopenClunkDone
    \/ Close_Start
    \/ Close_Return
    \/ Close_Done
    \/ Read_Start
    \/ Read_Done
    \/ Write_Start
    \/ Write_Done
    \/ Ren_Start
    \/ Ren_Walk1Done
    \/ Ren_Walk2Done
    \/ Ren_Walk2ClunkDone
    \/ Ren_RenameatDone
    \/ Ren_Clunk1Done
    \/ Ren_Clunk2Done
    \/ Simple_Start
    \/ Simple_Done
    \/ Fpath
    \/ Respond

\* The state of a session after version and attach succeeded and FidWrap - 1
\* opens of a path that does not exist were answered: each took one fid
\* (client.rs line 73), bound nothing, inserted no handle and sent no Tclunk
\* (scheme.rs lines 153-185 without the create flag), so the counter stands at
\* 0 again; the allocation budget is counted from here.
InitWrapped ==
    /\ pc = "idle"
    /\ waiting = FALSE
    /\ queue = <<>>
    /\ cur = EmptyCur
    /\ msize = MSIZE
    /\ fid_counter = 0
    /\ allocs = 0
    /\ root_qid = QidDir
    /\ handles = <<>>
    /\ next_handle = 1
    /\ srv_bound = {root_fid}
    /\ srv_msize = MSIZE
    /\ clunks = [f \in 0 .. FidWrap - 1 |-> 0]
    /\ closed = {}
    /\ partial = {}
    /\ tx = TxIdle
    /\ srv_version = VERSION
    /\ sent = <<Tversion, Tattach>>
    /\ conv = ConvIdle
    /\ fault = "none"
    /\ rd = StageIdle
    /\ wire = StageIdle
    /\ unit = StageIdle

SpecWrapped == InitWrapped /\ [][NextServing]_vars

\* C13: no Tread, Twrite, Treaddir or Tfsync is sent for a handle that a
\* stat-only open created (state Walked: no lopen was issued for its fid).
C13_WalkedRejects ==
    (/\ pc \in {"read", "write", "simple"}
     /\ waiting
     /\ queue # <<>>
     /\ Head(queue).typ \in {Tread, Twrite, Treaddir, Tfsync}) =>
        ~HasFlag(handles[cur.id].flags, O_STAT)

\* the daemon is in its request loop (main.rs lines 112-132)
Serving ==
    pc \notin {"version", "attach", "dead", "panicked", "transact", "convert", "codec",
               "getdents"}

\* C14: the first request sent is Tversion and the second is Tattach; Tattach
\* is sent only after a reply to Tversion whose version string is "9P2000.L";
\* the request loop is entered only after version and attach both succeeded,
\* and a failure of either ends the daemon for good.
C14_StartupOrdering ==
    /\ [](/\ Len(sent) >= 1 => sent[1] = Tversion
          /\ Len(sent) >= 2 => sent[2] = Tattach /\ srv_version = VERSION
          /\ pc = "attach" => srv_version = VERSION
          /\ Serving => /\ srv_version = VERSION
                        /\ root_qid # QidNone
                        /\ Len(sent) >= 2)
    /\ [][/\ pc = "version" => pc' \in {"version", "attach", "dead", "panicked"}
          /\ pc = "attach" => pc' \in {"attach", "idle", "dead", "panicked"}
          /\ pc \in {"dead", "panicked"} => pc' = pc]_vars

\* a scheme request is being served after the two startup calls
C14_Witness ==
    /\ pc = "open_walk"
    /\ waiting
    /\ sent = <<Tversion, Tattach>>
    /\ srv_version = VERSION

\* C15: when the Tlcreate of an open completes, the open either fails with no
\* handle inserted or returns at once (no Tlopen follows) with a new handle
\* that carries the fid sent in the Tlcreate and the QID of the Rlcreate; an
\* open never sends Tlopen after its lcreate succeeded.
C15_CreateOpensFid ==
    /\ [](pc \in {"open_lopen", "open_lopen_clunk", "open_isdir_clunk"} => ~cur.opened)
    /\ [][(pc = "open_lcreate" /\ waiting /\ ~waiting') =>
            \/ pc' = "panicked"
            \/ /\ pc' = "respond"
               /\ cur'.code = "EIO"
               /\ handles' = handles
            \/ /\ pc' = "respond"
               /\ cur'.code = "OK"
               /\ cur'.val \in DOMAIN handles' \ DOMAIN handles
               /\ handles'[cur'.val].fid = Head(queue).fid
               /\ handles'[cur'.val].qid = QidNew]_vars

\* an open has returned the handle of the file its lcreate made
C15_Witness ==
    /\ pc = "respond"
    /\ cur.op = "open"
    /\ cur.code = "OK"
    /\ cur.val \in DOMAIN handles
    /\ handles[cur.val].qid = QidNew
    /\ HasFlag(handles[cur.val].flags, O_CREAT)

\* C16: the Tlcreate of an open with flags create|write-only and mode 0o644
\* carries flags = 1 (the access mode alone), mode = 0o100644 and the gid of
\* the caller.
C16_LcreateFields ==
    (/\ pc = "open_lcreate"
     /\ waiting
     /\ queue # <<>>
     /\ cur.flags = O_CREAT + O_WRONLY + 420) =>
        /\ Head(queue).typ = Tlcreate
        /\ Head(queue).n = P9_WRONLY
        /\ Head(queue).mode = 33188
        /\ Head(queue).gid = cur.gid

\* C17: for every combination of local open flags, the flags to_9p_lopen_flags
\* gives for Tlopen are 0 for read-only, 1 for write-only, 2 for read-write,
\* plus 0x200 exactly when truncate is set, and nothing else: bit 0x40
\* (create) is never set.
C17_LopenFlags ==
    conv.lopen # NoField =>
        LET f == conv.flags
            acc == (f \div 65536) % 4
            trunc == (f \div 67108864) % 2
            out == conv.lopen
        IN /\ acc = 1 => out % 4 = 0
           /\ acc = 2 => out % 4 = 1
           /\ acc = 3 => out % 4 = 2
           /\ (out \div 512) % 2 = trunc
           /\ (out \div 64) % 2 = 0
           /\ out = (out % 4) + 512 * trunc

\* the conversion was applied to read-write flags that carry the create and
\* the truncate bit
C17_Witness ==
    /\ conv.lopen = 514
    /\ AccMode(conv.flags) = O_RDWR
    /\ HasFlag(conv.flags, O_CREAT)
    /\ HasFlag(conv.flags, O_TRUNC)

\* C18: a Tlcreate sent by open carries mode (flags & 0o7777) | 0o100000, and
\* none is sent with the regular-file type bit when the open asks for a
\* directory to be created (create together with the directory flag).
C18_CreateMode ==
    (/\ waiting
     /\ queue # <<>>
     /\ Head(queue).typ = Tlcreate) =>
        IF HasFlag(cur.flags, O_DIRECTORY)
        THEN (Head(queue).mode \div 32768) % 2 = 0
        ELSE Head(queue).mode = (cur.flags % 4096) + 32768

\* the directory check of open refuses c: a directory, opened neither
\* stat-only nor with the directory flag
Refused(c) ==
    /\ is_dir(c.qid)
    /\ ~HasFlag(c.flags, O_STAT)
    /\ ~HasFlag(c.flags, O_DIRECTORY)

\* C19: open clunks the walked fid and fails with EISDIR, sending no Tlopen
\* and inserting no handle, exactly when the object is a directory and the
\* flags carry neither stat-only nor the directory flag: with either flag the
\* directory is opened.
C19_IsDirectory ==
    /\ [](/\ pc = "open_isdir_clunk" =>
                /\ Refused(cur)
                /\ waiting => Head(queue) = T_clunk(cur.fid)
          /\ pc \in {"open_lopen", "open_lopen_clunk"} => ~Refused(cur)
          /\ \A id \in DOMAIN handles : ~Refused(handles[id]))
    /\ [][/\ (pc = "open_isdir_clunk" /\ pc' # pc) =>
                \/ pc' = "panicked"
                \/ /\ pc' = "respond"
                   /\ cur'.code = "EISDIR"
                   /\ handles' = handles
          /\ (pc # "respond" /\ pc' = "respond" /\ cur'.op = "open"
                /\ cur'.code = "EISDIR") => pc = "open_isdir_clunk"]_vars

\* an open of a directory without either flag has sent its Tclunk, which was
\* its first, and returns EISDIR with no handle in the table
C19_Witness ==
    /\ pc = "respond"
    /\ cur.op = "open"
    /\ cur.code = "EISDIR"
    /\ handles = <<>>
    /\ \E f \in DOMAIN clunks : clunks[f] = 1

\* C20: an open with the directory flag and read access of an object that is
\* no directory is never answered ENOTDIR: after the walk it sends Tlopen, the
\* completion of the Tlopen inserts the handle unless the server refused, and
\* a read on the handle is sent as Tread on the handle's fid.
C20_DirectoryFlagOnFile ==
    /\ [](/\ (pc = "respond" /\ cur.op = "open") => cur.code # "ENOTDIR"
          /\ (pc = "read" /\ waiting) =>
                /\ Head(queue).typ = Tread
                /\ Head(queue).fid = handles[cur.id].fid)
    /\ [][/\ (pc = "open_walk" /\ waiting /\ ~waiting'
                /\ cur.flags = O_DIRECTORY + O_RDONLY) =>
                \/ pc' \in {"panicked", "open_walk_clunk", "open_lopen"}
                \/ pc' = "respond" /\ cur'.code = "ENOENT"
          /\ (pc = "open_lopen" /\ waiting /\ ~waiting') =>
                \/ pc' \in {"panicked", "open_lopen_clunk"}
                \/ /\ pc' = "respond"
                   /\ cur'.code = "OK"
                   /\ cur'.val \in DOMAIN handles' \ DOMAIN handles
                   /\ handles'[cur'.val].fid = cur.fid
          /\ (pc = "idle" /\ cur'.op = "read" /\ cur'.id \in DOMAIN handles
                /\ ~is_dir(handles[cur'.id].qid)) =>
                \/ pc' = "read"
                \/ pc' = "respond" /\ cur'.code = "EBADF"]_vars

\* a read is on its way as Tread for a handle opened with the directory flag
\* on a regular file
C20_Witness ==
    /\ pc = "read"
    /\ waiting
    /\ Head(queue).typ = Tread
    /\ cur.id \in DOMAIN handles
    /\ handles[cur.id].flags = O_DIRECTORY + O_RDONLY
    /\ ~is_dir(handles[cur.id].qid)

\* C21: a handler whose last client call (other than a clunk) failed in the
\* client engine for a reason other than an Rerror (response too short,
\* inconsistent size, unexpected type, a field missing) returns EIO.
C21_ProtocolFailureIsEIO ==
    (pc = "respond" /\ fault = "protocol") => cur.code = "EIO"

\* C22: frename returns only before its first walk bound anything, after the
\* Tclunk of the old-parent fid when the second walk failed (which bound
\* nothing), or after the Tclunks of both fids; when it returns, no fid that
\* one of its parent walks bound is still bound, whatever renameat answered.
C22_FrenameClunksBoth ==
    [][/\ (pc # "respond" /\ pc' = "respond" /\ cur'.op = "frename") =>
            pc \in {"idle", "ren_walk1", "ren_walk2_clunk", "ren_clunk2"}
       /\ (pc = "ren_walk1" /\ pc' = "respond") => srv_bound' = srv_bound
       /\ (pc = "ren_walk2" /\ pc' = "ren_walk2_clunk") => srv_bound' = srv_bound
       /\ (pc = "ren_walk2_clunk" /\ pc' = "respond") => cur.fid \notin srv_bound'
       /\ (pc = "ren_clunk2" /\ pc' = "respond") =>
            /\ cur.fid \notin srv_bound'
            /\ cur.fid2 \notin srv_bound']_vars

\* frename returns EIO after a renameat that failed and the two Tclunks that
\* follow it, and no fid but the root's and the handles' is bound
C22_Witness ==
    /\ pc = "respond"
    /\ cur.op = "frename"
    /\ cur.code = "EIO"
    /\ fault # "none"
    /\ srv_bound \subseteq ({root_fid} \cup HandleFids)


----------------------------------------------------------------------------
----------------------------------------------------------------------------
\* C24: an on_close whose id is not in the handle table (never handed out, or
\* closed before) puts no 9P message on the queue, leaves the handle table,
\* next_handle and the fid counter as they were and the server's fids bound
\* as they were, and returns to the loop: no response is written and the
\* daemon neither panics nor exits.
C24_CloseUnknownNoop ==
    [][/\ (pc = "idle" /\ cur'.op = "close" /\ cur'.id \notin DOMAIN handles) =>
            /\ pc' = "close_ret"
            /\ <<queue, waiting, handles, next_handle, fid_counter, srv_bound, clunks>>'
                 = <<queue, waiting, handles, next_handle, fid_counter, srv_bound, clunks>>
       /\ (pc = "close_ret") =>
            /\ pc' = "idle"
            /\ <<queue, waiting, handles, next_handle, fid_counter, srv_bound, clunks>>'
                 = <<queue, waiting, handles, next_handle, fid_counter, srv_bound, clunks>>]_vars

\* on_close of an id that was handed out and closed before has returned
\* while another id may be handed out
C24_Witness ==
    /\ pc = "close_ret"
    /\ cur.id < next_handle
    /\ cur.id \notin DOMAIN handles
    /\ queue = <<>>


----------------------------------------------------------------------------
\* C25: a stat-only open that succeeds has sent one message, a Twalk from the
\* root fid to a new fid F (neither the root fid nor the fid of a handle),
\* and returns when that walk is answered, without a Tlopen; the close of the
\* handle it returned sends one message, Tclunk of F, which is not the root
\* fid, and is over when that clunk is answered.
C25_StatOpenCloseMessages ==
    [][/\ (pc' = "respond" /\ cur'.op = "open" /\ cur'.code = "OK"
             /\ HasFlag(cur.flags, O_STAT)) =>
            /\ pc = "open_walk"
            /\ handles'[cur'.val].fid = cur.fid
       /\ (pc = "open_walk" /\ HasFlag(cur.flags, O_STAT)
             /\ Len(queue') = Len(queue) + 1) =>
            /\ queue' = <<queue'[1]>>
            /\ queue'[1].typ = Twalk
            /\ queue'[1].fid = root_fid
            /\ queue'[1].newfid = cur.fid
            /\ cur.fid \notin ({root_fid} \cup HandleFids)
       /\ (pc = "close_clunk" /\ HasFlag(cur.flags, O_STAT)
             /\ Len(queue') = Len(queue) + 1) =>
            /\ queue' = <<queue'[1]>>
            /\ queue'[1].typ = Tclunk
            /\ queue'[1].fid = cur.fid
            /\ cur.fid # root_fid
       /\ (pc = "close_clunk" /\ pc' # pc) => pc' \in {"idle", "panicked"}]_vars


----------------------------------------------------------------------------
----------------------------------------------------------------------------
\* C27: a read that returns Ok returns min(R, L) for the length R of the data
\* the server sent (cur.data) and the length L of the caller's buffer
\* (cur.len): never more than L, and 0 exactly when R = 0 or L = 0.
C27_ReadReturnsMin ==
    (pc = "respond" /\ cur.op = "read" /\ cur.code = "OK") =>
        /\ cur.val = (IF cur.data <= cur.len THEN cur.data ELSE cur.len)
        /\ cur.val <= cur.len
        /\ (cur.val = 0) <=> (cur.data = 0 \/ cur.len = 0)

\* a read into a buffer of one byte for which the server sent more than one
\* byte has returned
C27_Witness ==
    /\ pc = "respond"
    /\ cur.op = "read"
    /\ cur.code = "OK"
    /\ cur.len = 1
    /\ cur.data > cur.len


----------------------------------------------------------------------------
(* protocol.rs: the codec.  A u8 and a u16 are numbers; a u32 is two and a
   u64 four 16-bit limbs, least significant first.  A message is a sequence
   of bytes. *)

Limb == 65536
Byte == 256

\* a to_le_bytes that writes the most significant byte first
to_be_bytes16(v) == <<v \div Byte, v % Byte>>

\* u16::to_le_bytes
to_le_bytes16(v) == <<v % Byte, v \div Byte>>

\* u32::to_le_bytes, u64::to_le_bytes
RECURSIVE to_le_bytes(_)
to_le_bytes(ws) ==
    IF ws = <<>> THEN <<>> ELSE to_le_bytes16(Head(ws)) \o to_le_bytes(Tail(ws))

\* u16::from_le_bytes
from_le_bytes16(b) == b[1] + Byte * b[2]

\* u32::from_le_bytes, u64::from_le_bytes
RECURSIVE from_le_bytes(_)
from_le_bytes(b) ==
    IF b = <<>> THEN <<>>
    ELSE <<from_le_bytes16(SubSeq(b, 1, 2))>> \o from_le_bytes(SubSeq(b, 3, Len(b)))

\* usize as u32 (a length in the model is below 2^31)
as_u32(n) == <<n % Limb, (n \div Limb) % Limb>>

\* Option: None, or Some(v) with the number of bytes read for it (the cursor
\* of the parser after it)
None == [ok |-> FALSE]
Got(v, pos) == [ok |-> TRUE, v |-> v, pos |-> pos]

\* Qid::encode, lines 169-173
Qid_encode(q) == <<q.typ>> \o to_le_bytes(q.version) \o to_le_bytes(q.path)

\* Qid::decode, lines 156-167
Qid_decode(data) ==
    IF Len(data) < QidSIZE THEN None
    ELSE Got([typ |-> data[1],
              version |-> from_le_bytes(SubSeq(data, 2, 5)),
              path |-> from_le_bytes(SubSeq(data, 6, 13))], QidSIZE)

\* Header::encode, lines 211-215
Header_encode(h) == to_le_bytes(h.size) \o <<h.typ>> \o to_le_bytes16(h.tag)

\* Header::decode, lines 200-209
Header_decode(data) ==
    IF Len(data) < HeaderSIZE THEN None
    ELSE Got([size |-> from_le_bytes(SubSeq(data, 1, 4)),
              typ |-> data[5],
              tag |-> from_le_bytes16(SubSeq(data, 6, 7))], HeaderSIZE)

\* core::str::from_utf8 on the one- and two-byte forms: every byte is ASCII, or
\* a lead byte followed by a continuation byte, or a continuation byte that
\* follows a lead byte
from_utf8_ok(b) ==
    \A k \in 1 .. Len(b) :
        \/ b[k] < 128
        \/ b[k] >= 194 /\ b[k] <= 223 /\ k < Len(b) /\ b[k + 1] >= 128 /\ b[k + 1] <= 191
        \/ b[k] >= 128 /\ b[k] <= 191 /\ k > 1 /\ b[k - 1] >= 194 /\ b[k - 1] <= 223

\* MessageParser, lines 286-390: a read at cursor pos of data gives the value
\* and the cursor after it, or None; Fail is the None of a parser read, with
\* the cursor the parser is left at
Fail(pos) == [ok |-> FALSE, pos |-> pos]

get_u8(data, pos) ==
    IF pos >= Len(data) THEN Fail(pos) ELSE Got(data[pos + 1], pos + 1)

get_u16(data, pos) ==
    IF pos + 2 > Len(data) THEN Fail(pos)
    ELSE Got(from_le_bytes16(SubSeq(data, pos + 1, pos + 2)), pos + 2)

get_u32(data, pos) ==
    IF pos + 4 > Len(data) THEN Fail(pos)
    ELSE Got(from_le_bytes(SubSeq(data, pos + 1, pos + 4)), pos + 4)

get_u64(data, pos) ==
    IF pos + 8 > Len(data) THEN Fail(pos)
    ELSE Got(from_le_bytes(SubSeq(data, pos + 1, pos + 8)), pos + 8)

get_str(data, pos) ==
    LET l == get_u16(data, pos)
    IN IF ~l.ok THEN Fail(l.pos)
       ELSE IF l.pos + l.v > Len(data) THEN Fail(l.pos)
       ELSE IF ~from_utf8_ok(SubSeq(data, l.pos + 1, l.pos + l.v)) THEN Fail(l.pos)
       ELSE Got(SubSeq(data, l.pos + 1, l.pos + l.v), l.pos + l.v)

\* (len as usize: a length of 2^16 or more fails the comparison as 2^16
\* does, every buffer of the model being shorter)
get_data(data, pos) ==
    LET l == get_u32(data, pos)
        len == IF l.v[2] = 0 THEN l.v[1] ELSE Limb
    IN IF ~l.ok THEN Fail(l.pos)
       ELSE IF l.pos + len > Len(data) THEN Fail(l.pos)
       ELSE Got(SubSeq(data, l.pos + 1, l.pos + len), l.pos + len)

get_qid(data, pos) ==
    IF pos + QidSIZE > Len(data) THEN Fail(pos)
    ELSE LET q == Qid_decode(SubSeq(data, pos + 1, Len(data)))
         IN IF ~q.ok THEN Fail(pos) ELSE Got(q.v, pos + QidSIZE)

get_header(data, pos) ==
    IF pos + HeaderSIZE > Len(data) THEN Fail(pos)
    ELSE LET h == Header_decode(SubSeq(data, pos + 1, Len(data)))
         IN IF ~h.ok THEN Fail(pos) ELSE Got(h.v, pos + HeaderSIZE)


----------------------------------------------------------------------------
(* The codec taken alone: a header, a QID and a message of up to MaxItems
   fields are encoded, and what was encoded is decoded *)

\* a field of kind k and value v: a number (u8, u16), limbs or bytes (u32,
\* u64, str, data) or a QID
Item(k, v) ==
    [k |-> k,
     n |-> IF k \in {"u8", "u16"} THEN v ELSE 0,
     w |-> IF k \in {"u32", "u64", "str", "data"} THEN v ELSE <<>>,
     q |-> IF k = "qid" THEN v ELSE [typ |-> 0, version |-> <<0, 0>>, path |-> <<0, 0, 0, 0>>]]

\* the fields a message is built from: both ends of each width, values whose
\* bytes differ, the empty and a two-byte string, empty and non-empty data
WireQids ==
    { [typ |-> QID_DIR, version |-> <<1, 2>>, path |-> <<3, 4, 5, 6>>],
      [typ |-> QID_FILE, version |-> <<65535, 65535>>, path |-> <<0, 0, 0, 32768>>] }
WireItems ==
    { Item("u8", 255), Item("u16", 258), Item("u16", 65535),
      Item("u32", <<1, 2>>), Item("u32", <<65535, 65535>>),
      Item("u64", <<513, 0, 3, 65535>>),
      Item("str", <<>>), Item("str", <<97, 98>>), Item("str", <<195, 169>>),
      Item("data", <<>>), Item("data", <<0, 255, 7>>) }
    \cup { Item("qid", q) : q \in WireQids }
WireHeaders ==
    { [size |-> <<7, 0>>, typ |-> Twalk, tag |-> 0],
      [size |-> <<0, 2>>, typ |-> Rerror, tag |-> 65535],
      [size |-> <<65535, 65535>>, typ |-> 255, tag |-> 258] }

\* the sequences of up to n elements of S
RECURSIVE SeqsUpTo(_, _)
SeqsUpTo(S, n) ==
    IF n = 0 THEN {<<>>}
    ELSE SeqsUpTo(S, n - 1) \cup { Append(s, x) : s \in SeqsUpTo(S, n - 1), x \in S }

\* MessageBuilder::put_u8 .. put_qid, lines 232-271: the buffer after the put
\* call of one field (put_str writes len as u16, put_data len as u32)
put_item(buf, it) ==
    CASE it.k = "u8" -> Append(buf, it.n)
      [] it.k = "u16" -> buf \o to_le_bytes16(it.n)
      [] it.k \in {"u32", "u64"} -> buf \o to_le_bytes(it.w)
      [] it.k = "str" -> buf \o to_le_bytes16(Len(it.w) % Limb) \o it.w
      [] it.k = "data" -> buf \o to_le_bytes(as_u32(Len(it.w))) \o it.w
      [] OTHER -> buf \o Qid_encode(it.q)

\* the get_* call that matches a field
get_item(data, pos, k) ==
    CASE k = "u8" -> get_u8(data, pos)
      [] k = "u16" -> get_u16(data, pos)
      [] k = "u32" -> get_u32(data, pos)
      [] k = "u64" -> get_u64(data, pos)
      [] k = "str" -> get_str(data, pos)
      [] k = "data" -> get_data(data, pos)
      [] OTHER -> get_qid(data, pos)

RECURSIVE put_items(_, _)
put_items(buf, items) ==
    IF items = <<>> THEN buf ELSE put_items(put_item(buf, Head(items)), Tail(items))

\* MessageBuilder::new(typ, tag).put_..(..) ... .finish(): the header with
\* size 0 (Header::new), the fields, and the length written into the size
build(typ, tag, items) ==
    LET buf == put_items(Header_encode([size |-> <<0, 0>>, typ |-> typ, tag |-> tag]), items)
    IN to_le_bytes(as_u32(Len(buf))) \o SubSeq(buf, 5, Len(buf))

\* the get_* calls for fields of the given kinds, in their order, from cursor
\* pos: the values read and the cursor after them, or None at the first read
\* that fails
RECURSIVE get_items(_, _, _, _)
get_items(data, pos, kinds, vals) ==
    IF kinds = <<>> THEN Got(vals, pos)
    ELSE LET g == get_item(data, pos, Head(kinds))
         IN IF ~g.ok THEN None
            ELSE get_items(data, g.pos, Tail(kinds), Append(vals, Item(Head(kinds), g.v)))

\* MessageParser::new(data), get_header, then the get_* calls
parse(data, items) ==
    LET h == get_header(data, 0)
    IN IF ~h.ok THEN None
       ELSE LET g == get_items(data, h.pos, [i \in 1 .. Len(items) |-> items[i].k], <<>>)
            IN IF ~g.ok THEN None
               ELSE [ok |-> TRUE, header |-> h.v, vals |-> g.v, pos |-> g.pos]

InitCodec ==
    /\ pc = "codec"
    /\ waiting = FALSE
    /\ queue = <<>>
    /\ cur = EmptyCur
    /\ msize = MSIZE
    /\ fid_counter = 1
    /\ allocs = 0
    /\ root_qid = QidNone
    /\ handles = <<>>
    /\ next_handle = 1
    /\ srv_bound = {}
    /\ srv_msize = 0
    /\ clunks = [f \in 0 .. FidWrap - 1 |-> 0]
    /\ closed = {}
    /\ partial = {}
    /\ tx = TxIdle
    /\ srv_version = ""
    /\ sent = <<>>
    /\ fault = "none"
    /\ conv = ConvIdle
    /\ rd = StageIdle
    /\ unit = StageIdle
    /\ \E h \in WireHeaders, q \in WireQids, tag \in {0, 258, 65535},
          items \in SeqsUpTo(WireItems, MaxItems) :
         wire = [stage |-> "values", h |-> h, q |-> q, typ |-> h.typ, tag |-> tag,
                 items |-> items, hbuf |-> <<>>, qbuf |-> <<>>, buf |-> <<>>,
                 hout |-> None, qout |-> None, out |-> None, read |-> None]

\* Header::encode, Qid::encode and the builder
Wire_Encode ==
    /\ pc = "codec"
    /\ wire.stage = "values"
    /\ wire' = [wire EXCEPT !.stage = "encoded",
                            !.hbuf = Header_encode(wire.h),
                            !.qbuf = Qid_encode(wire.q),
                            !.buf = build(wire.typ, wire.tag, wire.items)]
    /\ UNCHANGED <<pc, waiting, queue, cur, msize, fid_counter, allocs, root_qid, handles,
                   next_handle, srv_bound, srv_msize, clunks, closed, partial, tx,
                   srv_version, sent, fault, conv, rd, unit>>

\* Header::decode, Qid::decode and the parser
Wire_Decode ==
    /\ pc = "codec"
    /\ wire.stage = "encoded"
    /\ wire' = [wire EXCEPT !.stage = "decoded",
                            !.hout = Header_decode(wire.hbuf),
                            !.qout = Qid_decode(wire.qbuf),
                            !.out = parse(wire.buf, wire.items)]
    /\ UNCHANGED <<pc, waiting, queue, cur, msize, fid_counter, allocs, root_qid, handles,
                   next_handle, srv_bound, srv_msize, clunks, closed, partial, tx,
                   srv_version, sent, fault, conv, rd, unit>>

\* one parser read taken alone: MessageParser::new on the first len bytes of
\* the message, then get_header at cursor 0, or the get_* call of the first
\* field at the cursor after the header (messages of up to MaxRead fields)
Wire_Read ==
    /\ pc = "codec"
    /\ wire.stage = "decoded"
    /\ Len(wire.items) <= MaxRead
    /\ \E len \in 0 .. Len(wire.buf),
          k \in {"header"} \cup {wire.items[i].k : i \in 1 .. Min(1, Len(wire.items))} :
         LET data == SubSeq(wire.buf, 1, len)
             pos == IF k = "header" THEN 0 ELSE HeaderSIZE
         IN /\ pos <= len
            /\ wire' = [wire EXCEPT
                          !.stage = "read",
                          !.read = [k |-> k, pos |-> pos, len |-> len,
                                    r |-> IF k = "header" THEN get_header(data, pos)
                                          ELSE get_item(data, pos, k)]]
    /\ UNCHANGED <<pc, waiting, queue, cur, msize, fid_counter, allocs, root_qid, handles,
                   next_handle, srv_bound, srv_msize, clunks, closed, partial, tx,
                   srv_version, sent, fault, conv, rd, unit>>

SpecCodec == InitCodec /\ [][Wire_Encode \/ Wire_Decode \/ Wire_Read]_vars

\* C29: decoding what was encoded gives the values back: Header::decode of
\* Header::encode(h) is h, Qid::decode of Qid::encode(q) is q, and for a
\* message the builder made of put_u8/u16/u32/u64/str/data/qid calls,
\* get_header and the matching get_* calls in the same order return the
\* header (the total length, the type, the tag) and the same values, and
\* leave the cursor at the end of the message.
C29_CodecRoundTrip ==
    wire.stage = "decoded" =>
        /\ wire.hout = Got(wire.h, HeaderSIZE)
        /\ wire.qout = Got(wire.q, QidSIZE)
        /\ wire.out.ok
        /\ wire.out.header = [size |-> as_u32(Len(wire.buf)), typ |-> wire.typ,
                              tag |-> wire.tag]
        /\ wire.out.vals = wire.items
        /\ wire.out.pos = Len(wire.buf)

\* a message with a two-byte string and then a QID was decoded
C29_Witness ==
    /\ wire.stage = "decoded"
    /\ Len(wire.items) = 2
    /\ wire.items[1] = Item("str", <<195, 169>>)
    /\ wire.items[2].k = "qid"
    /\ wire.tag = 258
    /\ Len(wire.buf) = HeaderSIZE + 2 + 2 + QidSIZE


----------------------------------------------------------------------------
(* getdents taken alone, on a directory handle: client.readdir encodes the
   Treaddir, the server answers in bytes, readdir decodes the entries and
   getdents emits the dirents *)

\* a getdents that numbers the dirents itself
dirent_of_next(entry) ==
    [inode |-> entry.qid.path, name |-> entry.name,
     kind |-> IF is_dir(entry.qid) THEN "Directory" ELSE "Regular",
     next_opaque_id |-> <<(entry.offset[1] + 1) % Limb>> \o Tail(entry.offset)]

\* scheme.rs lines 298-310: the DirEntry passed to buf.entry
dirent_of(entry) ==
    [inode |-> entry.qid.path, name |-> entry.name,
     kind |-> IF is_dir(entry.qid) THEN "Directory" ELSE "Regular",
     next_opaque_id |-> entry.offset]

\* the opaque_offset of the caller and the offsets of the server's entries:
\* 0, a small one, 2^32 and the largest
Cookies == { <<0, 0, 0, 0>>, <<5, 0, 0, 0>>, <<0, 0, 1, 0>>, <<65535, 65535, 65535, 65535>> }

\* entries a server may send: the last has a name that is not UTF-8
SrvEntries ==
    { [qid |-> [typ |-> QID_DIR, version |-> <<0, 0>>, path |-> <<2, 0, 0, 0>>],
       offset |-> <<5, 0, 0, 0>>, typ |-> 4, name |-> <<97>>],
      [qid |-> [typ |-> QID_FILE, version |-> <<7, 0>>, path |-> <<1, 0, 1, 0>>],
       offset |-> <<65535, 65535, 65535, 65535>>, typ |-> 8, name |-> <<195, 169>>],
      [qid |-> [typ |-> QID_FILE, version |-> <<0, 0>>, path |-> <<3, 0, 0, 0>>],
       offset |-> <<0, 0, 1, 0>>, typ |-> 8, name |-> <<255>>] }

\* client.rs lines 365-370: the Treaddir of readdir(fid, offset, count)
readdir_request(tag, fid, offset, count) ==
    build(Treaddir, tag, <<Item("u32", fid), Item("u64", offset), Item("u32", count)>>)

\* the entries of an Rreaddir as the server lays them out:
\* qid[13] offset[8] type[1] name[s]
RECURSIVE entries_bytes(_)
entries_bytes(es) ==
    IF es = <<>> THEN <<>>
    ELSE put_items(<<>>, <<Item("qid", Head(es).qid), Item("u64", Head(es).offset),
                           Item("u8", Head(es).typ), Item("str", Head(es).name)>>)
         \o entries_bytes(Tail(es))

\* the replies of the server: the entries with or without bytes after them,
\* an Rerror, a reply of another type
readdir_replies(tag, es, junk) ==
    { build(Treaddir + 1, tag, <<Item("data", entries_bytes(es) \o junk)>>),
      build(Rerror, tag, <<Item("u32", <<2, 0>>)>>),
      build(Rread, tag, <<Item("data", entries_bytes(es))>>) }

\* DirEntry::decode, protocol.rs lines 484-491
DirEntry_decode(data, pos) ==
    LET q == get_qid(data, pos)
    IN IF ~q.ok THEN None
       ELSE LET o == get_u64(data, q.pos)
            IN IF ~o.ok THEN None
               ELSE LET t == get_u8(data, o.pos)
                    IN IF ~t.ok THEN None
                       ELSE LET n == get_str(data, t.pos)
                            IN IF ~n.ok THEN None
                               ELSE Got([qid |-> q.v, offset |-> o.v, typ |-> t.v,
                                         name |-> n.v], n.pos)

\* client.rs lines 384-390: entries are decoded while bytes remain, up to the
\* first that does not decode
RECURSIVE decode_entries(_, _, _)
decode_entries(data, pos, entries) ==
    IF Len(data) - pos > 0
    THEN LET e == DirEntry_decode(data, pos)
         IN IF e.ok THEN decode_entries(data, e.pos, Append(entries, e.v)) ELSE entries
    ELSE entries

\* client.rs lines 372-392: transact hands over the reply unless it is an
\* Rerror; then the header, the type, the data and the entries
readdir(resp) ==
    LET h == get_header(resp, 0)
    IN IF ~h.ok THEN None
       ELSE IF h.v.typ = Rerror THEN None
       ELSE IF h.v.typ # Treaddir + 1 THEN None
       ELSE LET d == get_data(resp, h.pos)
            IN IF ~d.ok THEN None ELSE Got(decode_entries(d.v, 0, <<>>), d.pos)

\* scheme.rs lines 298-313: buf.entry(..)? for each entry; the buffer of the
\* caller takes cap entries and buf.entry fails on the next
RECURSIVE emit(_, _)
emit(entries, cap) ==
    IF entries = <<>> THEN [result |-> "OK", dirents |-> <<>>]
    ELSE IF cap = 0 THEN [result |-> "err", dirents |-> <<>>]
    ELSE LET rest == emit(Tail(entries), cap - 1)
         IN [result |-> rest.result, dirents |-> <<dirent_of(Head(entries))>> \o rest.dirents]

InitReaddir ==
    /\ pc = "getdents"
    /\ waiting = FALSE
    /\ queue = <<>>
    /\ cur = EmptyCur
    /\ msize = MSIZE
    /\ fid_counter = 1
    /\ allocs = 0
    /\ root_qid = QidNone
    /\ handles = <<>>
    /\ next_handle = 1
    /\ srv_bound = {}
    /\ srv_msize = 0
    /\ clunks = [f \in 0 .. FidWrap - 1 |-> 0]
    /\ closed = {}
    /\ partial = {}
    /\ tx = TxIdle
    /\ srv_version = ""
    /\ sent = <<>>
    /\ fault = "none"
    /\ conv = ConvIdle
    /\ wire = StageIdle
    /\ unit = StageIdle
    /\ \E c \in Cookies, es \in SeqsUpTo(SrvEntries, MaxEntries), junk \in {<<>>, <<1, 2, 3>>},
          cap \in 0 .. MaxEntries :
         rd = [stage |-> "call", opaque_offset |-> c, srv |-> es, junk |-> junk,
               cap |-> cap, msg |-> <<>>, resp |-> <<>>, result |-> "none",
               dirents |-> <<>>]

\* scheme.rs lines 291-292 and client.rs lines 365-370:
\* self.client.readdir(handle.fid, opaque_offset, 4096) up to the request
Rd_Send ==
    /\ pc = "getdents"
    /\ rd.stage = "call"
    /\ rd' = [rd EXCEPT !.stage = "sent",
                        !.msg = readdir_request(1, <<1, 0>>, rd.opaque_offset, as_u32(4096))]
    /\ UNCHANGED <<pc, waiting, queue, cur, msize, fid_counter, allocs, root_qid, handles,
                   next_handle, srv_bound, srv_msize, clunks, closed, partial, tx,
                   srv_version, sent, fault, conv, wire, unit>>

\* the server answers
Rd_Reply ==
    /\ pc = "getdents"
    /\ rd.stage = "sent"
    /\ \E resp \in readdir_replies(1, rd.srv, rd.junk) :
         rd' = [rd EXCEPT !.stage = "replied", !.resp = resp]
    /\ UNCHANGED <<pc, waiting, queue, cur, msize, fid_counter, allocs, root_qid, handles,
                   next_handle, srv_bound, srv_msize, clunks, closed, partial, tx,
                   srv_version, sent, fault, conv, wire, unit>>

\* scheme.rs lines 291-313: the rest of readdir and the loop of getdents
Rd_Return ==
    /\ pc = "getdents"
    /\ rd.stage = "replied"
    /\ LET entries == readdir(rd.resp)
       IN rd' = IF ~entries.ok
                THEN [rd EXCEPT !.stage = "returned", !.result = "EIO"]
                ELSE [rd EXCEPT !.stage = "returned",
                                !.result = emit(entries.v, rd.cap).result,
                                !.dirents = emit(entries.v, rd.cap).dirents]
    /\ UNCHANGED <<pc, waiting, queue, cur, msize, fid_counter, allocs, root_qid, handles,
                   next_handle, srv_bound, srv_msize, clunks, closed, partial, tx,
                   srv_version, sent, fault, conv, wire, unit>>

SpecReaddir == InitReaddir /\ [][Rd_Send \/ Rd_Reply \/ Rd_Return]_vars

\* C28: the offset field of the Treaddir (the eight bytes after the header
\* and the fid) is the opaque_offset the caller gave getdents, and the
\* next_opaque_id of the i-th dirent emitted is the offset field of the i-th
\* entry the server sent.
C28_CookiesVerbatim ==
    /\ rd.stage \in {"sent", "replied", "returned"} =>
         /\ get_u32(rd.msg, HeaderSIZE).ok
         /\ get_u64(rd.msg, HeaderSIZE + 4) = Got(rd.opaque_offset, HeaderSIZE + 12)
    /\ rd.stage = "returned" =>
         /\ Len(rd.dirents) <= Len(rd.srv)
         /\ \A i \in 1 .. Len(rd.dirents) : rd.dirents[i].next_opaque_id = rd.srv[i].offset

\* getdents was called with the cookie 2^32 and has emitted two dirents, the
\* second with the largest cookie
C28_Witness ==
    /\ rd.stage = "returned"
    /\ rd.result = "OK"
    /\ rd.opaque_offset = <<0, 0, 1, 0>>
    /\ Len(rd.dirents) = 2
    /\ rd.dirents[1].next_opaque_id = <<5, 0, 0, 0>>
    /\ rd.dirents[2].next_opaque_id = <<65535, 65535, 65535, 65535>>


----------------------------------------------------------------------------
\* C30: for a reply transact takes as a frame (at least a header written, the
\* size within the bytes written and within msize), a type byte Rerror makes
\* the call fail with the 9P error, and any other type than the expected
\* R-code makes it fail with a protocol error; in neither case does the call
\* return a value (or anything else than an error).
C30_TypeCheckedFirst ==
    LET req == Req(tx.req, 1, NoField, 1, 0)
        r == Resp(FALSE, tx.written, tx.size, tx.typ, tx.n, QidNone, "")
        framed == /\ tx.written >= HeaderSIZE
                  /\ tx.size <= tx.written
                  /\ tx.size <= msize
    IN /\ (pc = "transact" /\ tx.tout # "none" /\ framed /\ tx.typ = Rerror) =>
            /\ tx.tout = "err"
            /\ call_fault(req, r, msize) = "9P"
       /\ (pc = "transact" /\ tx.out # "none" /\ tx.typ \notin {Rerror, tx.req + 1}) =>
            /\ tx.out = "err"
            /\ call_fault(req, r, msize) = "protocol"


----------------------------------------------------------------------------
\* C31: a request is taken from the socket only in the loop (after the
\* response to the request before it was written); a Call request that is
\* being handled stays the current request until its handler has returned,
\* its response is then written once and the loop goes on; a close
\* notification is never answered.
C31_OneResponsePerCall ==
    [][/\ (cur.op = "none" /\ cur'.op # "none") => pc = "idle"
       /\ (cur.op \notin {"none", "close"} /\ pc # "respond") =>
            /\ cur'.op = cur.op
            /\ pc' \notin {"idle", "panicked", "dead"}
       /\ (pc = "respond") => (pc' = "idle" /\ cur' = EmptyCur)
       /\ (cur.op = "close") => pc' # "respond"]_vars


----------------------------------------------------------------------------
\* C32: open leaves the walk to its path for the create path (the walk to the
\* parent, or the clone of the root, and then Tlcreate) only when that walk
\* reported not-found: after the clunk of a walk that returned fewer QIDs
\* than components, or on an Rerror; never on a walk that failed as a
\* protocol or transport failure.
C32_CreateOnlyOnNotFound ==
    [][(cur.op = "open" /\ pc \in {"open_walk", "open_walk_clunk"}
          /\ pc' \in {"open_clone", "open_pwalk"}) =>
         \/ pc = "open_walk_clunk"
         \/ fault' = "9P"]_vars


----------------------------------------------------------------------------
\* C33: when the lopen of an open fails, open sends one message more, the
\* Tclunk of the fid it walked and tried to open, and when that is answered
\* it returns EIO with the handle table and next_handle as they were.
C33_LopenFailureClunks ==
    [][/\ (pc = "open_lopen" /\ waiting /\ ~waiting' /\ fault' # "none") =>
            /\ pc' = "open_lopen_clunk"
            /\ cur' = cur
            /\ handles' = handles
       /\ (pc = "open_lopen" /\ pc' = "respond") => cur'.code = "OK"
       /\ (pc = "open_lopen_clunk" /\ queue' # queue /\ ~waiting) =>
            /\ Len(queue') = 1
            /\ queue'[1].typ = Tclunk
            /\ queue'[1].fid = cur.fid
       /\ (pc = "open_lopen_clunk" /\ pc' # pc) =>
            \/ pc' = "panicked"
            \/ /\ pc' = "respond"
               /\ cur'.code = "EIO"
               /\ handles' = handles
               /\ next_handle' = next_handle]_vars

\* the lopen of an open has failed and the Tclunk of its fid is with the device
C33_Witness ==
    /\ pc = "open_lopen_clunk"
    /\ cur.op = "open"
    /\ fault # "none"
    /\ waiting
    /\ queue # <<>>
    /\ Head(queue).typ = Tclunk
    /\ Head(queue).fid = cur.fid
    /\ cur.fid \notin HandleFids

\* ---------------------------------------------------------------------------
\* Client9p::next_tag taken alone: the tags of the messages of one session.
\* The counter is an AtomicU16 and keeps its width (Limb is 2^16).

\* the bound: the number of messages of the session that are followed
MaxSent == 65537

\* Client9p::next_tag: fetch_add returns the old value and wraps at 2^16
next_tag(tag_counter) ==
    [tag |-> tag_counter, tag_counter |-> (tag_counter + 1) % Limb]

\* tag_counter starts at 1 (Client9p::new); a session that has already sent
\* n messages, fewer than 2^16, has called next_tag n times, once per message
InitTags ==
    /\ pc = "tags"
    /\ waiting = FALSE
    /\ queue = <<>>
    /\ cur = EmptyCur
    /\ msize = MSIZE
    /\ fid_counter = 1
    /\ allocs = 0
    /\ root_qid = QidNone
    /\ handles = <<>>
    /\ next_handle = 1
    /\ srv_bound = {}
    /\ srv_msize = 0
    /\ clunks = [f \in 0 .. FidWrap - 1 |-> 0]
    /\ closed = {}
    /\ partial = {}
    /\ tx = TxIdle
    /\ srv_version = ""
    /\ sent = <<>>
    /\ fault = "none"
    /\ conv = ConvIdle
    /\ rd = StageIdle
    /\ wire = StageIdle
    /\ \E n \in 0 .. Limb - 1 :
         unit = [stage |-> "tags", n |-> n, tag_counter |-> (1 + n) % Limb,
                 tags |-> IF n = 0 THEN <<>>
                          ELSE IF n = 1 THEN <<1>>
                          ELSE <<(n - 1) % Limb, n % Limb>>]

\* every client method: let tag = self.next_tag(), then the message is built
\* with it; tags keeps the tags of the last two messages
Tag_Send ==
    /\ pc = "tags"
    /\ unit.stage = "tags"
    /\ unit.n < MaxSent
    /\ LET t == next_tag(unit.tag_counter)
       IN  unit' = [unit EXCEPT !.n = @ + 1,
                                !.tag_counter = t.tag_counter,
                                !.tags = IF Len(@) < 2 THEN Append(@, t.tag)
                                         ELSE <<@[2], t.tag>>]
    /\ UNCHANGED <<pc, waiting, queue, cur, msize, fid_counter, allocs, root_qid,
                   handles, next_handle, srv_bound, srv_msize, clunks, closed,
                   partial, tx, srv_version, sent, fault, conv, rd, wire>>

SpecTags == InitTags /\ [][Tag_Send]_vars

\* C34: the tags of successive messages are strictly increasing and the first
\* one is 1, however many messages the session has sent.
C34_TagsIncrease ==
    (unit.stage = "tags" /\ unit.tags # <<>>) =>
        /\ (unit.n = 1) => unit.tags = <<1>>
        /\ (Len(unit.tags) = 2) => unit.tags[1] < unit.tags[2]

\* ---------------------------------------------------------------------------
\* read_mount_tag (main.rs) taken alone, over device configurations.

\* the device config space: bytes 0-1 hold tag_len, little-endian, and the tag
\* follows from byte 2 on; the tag is made of the letter "a" (97) with a NUL
\* at index nul of the tag (nul = -1: no NUL)
config(tag_len, nul, offset) ==
    IF offset = 0 THEN tag_len % Byte
    ELSE IF offset = 1 THEN tag_len \div Byte
    ELSE IF offset - 2 = nul THEN 0
    ELSE 97

InitMountTag ==
    /\ pc = "mount_tag"
    /\ waiting = FALSE
    /\ queue = <<>>
    /\ cur = EmptyCur
    /\ msize = MSIZE
    /\ fid_counter = 1
    /\ allocs = 0
    /\ root_qid = QidNone
    /\ handles = <<>>
    /\ next_handle = 1
    /\ srv_bound = {}
    /\ srv_msize = 0
    /\ clunks = [f \in 0 .. FidWrap - 1 |-> 0]
    /\ closed = {}
    /\ partial = {}
    /\ tx = TxIdle
    /\ srv_version = ""
    /\ sent = <<>>
    /\ fault = "none"
    /\ conv = ConvIdle
    /\ rd = StageIdle
    /\ wire = StageIdle
    /\ \E tag_len \in {0, 1, 2, 3, 253, 254, 255, 256, 257, 512, 65535},
          nul \in {-1, 0, 1, 252, 253, 254, 255} :
         unit = [stage |-> "call", tag_len |-> tag_len, nul |-> nul, i |-> 0,
                 offsets |-> <<>>, tag_bytes |-> <<>>, result |-> <<>>]

\* lines 142-147: tag_len = load_config(0, 2); 0 and more than 256 return the
\* empty string
Mt_Start ==
    /\ pc = "mount_tag"
    /\ unit.stage = "call"
    /\ LET tag_len == config(unit.tag_len, unit.nul, 0)
                        + Byte * config(unit.tag_len, unit.nul, 1)
       IN  unit' = [unit EXCEPT !.stage = IF tag_len = 0 \/ tag_len > 256
                                          THEN "returned" ELSE "loop"]
    /\ UNCHANGED <<pc, waiting, queue, cur, msize, fid_counter, allocs, root_qid,
                   handles, next_handle, srv_bound, srv_msize, clunks, closed,
                   partial, tx, srv_version, sent, fault, conv, rd, wire>>

\* lines 148-156, one iteration of the loop: the offset is 2 + i as u8, a u8
\* sum, which overflows from i = 254 on: the build panics there when overflow
\* checks are on and wraps when they are off. After a NUL or the last
\* iteration the function returns String::from_utf8(tag_bytes), the empty
\* string when the bytes are not UTF-8.
Mt_Byte ==
    /\ pc = "mount_tag"
    /\ unit.stage = "loop"
    /\ \/ /\ 2 + (unit.i % Byte) >= Byte
          /\ unit' = [unit EXCEPT !.stage = "panicked"]
       \/ LET offset == (2 + (unit.i % Byte)) % Byte
              byte == config(unit.tag_len, unit.nul, offset)
              bytes == IF byte = 0 THEN unit.tag_bytes
                       ELSE Append(unit.tag_bytes, byte)
              done == byte = 0 \/ unit.i + 1 = unit.tag_len
          IN  unit' = [unit EXCEPT
                         !.offsets = Append(@, offset),
                         !.tag_bytes = bytes,
                         !.i = IF byte = 0 THEN @ ELSE @ + 1,
                         !.stage = IF done THEN "returned" ELSE "loop",
                         !.result = IF done /\ from_utf8_ok(bytes)
                                    THEN bytes ELSE <<>>]
    /\ UNCHANGED <<pc, waiting, queue, cur, msize, fid_counter, allocs, root_qid,
                   handles, next_handle, srv_bound, srv_msize, clunks, closed,
                   partial, tx, srv_version, sent, fault, conv, rd, wire>>

SpecMountTag == InitMountTag /\ [][Mt_Start \/ Mt_Byte]_vars

\* C36: for tag_len from 1 to 256 read_mount_tag reads the config bytes at
\* offsets 2, 3, ... in order, up to the first NUL or to offset 2 + tag_len - 1,
\* the offset never overflowing, and returns the bytes before the NUL; for
\* tag_len 0 or above 256 it reads no tag byte and returns the empty tag.
C36_MountTagOffsets ==
    (pc = "mount_tag") =>
        /\ unit.stage # "panicked"
        /\ \A k \in 1 .. Len(unit.offsets) : unit.offsets[k] = 2 + (k - 1)
        /\ (unit.stage = "returned") =>
             IF unit.tag_len = 0 \/ unit.tag_len > 256
             THEN unit.offsets = <<>> /\ unit.result = <<>>
             ELSE LET n == IF unit.nul >= 0 /\ unit.nul < unit.tag_len
                           THEN unit.nul ELSE unit.tag_len
                  IN  /\ unit.result = [k \in 1 .. n |-> 97]
                      /\ Len(unit.offsets) = IF n < unit.tag_len THEN n + 1 ELSE n

\* ---------------------------------------------------------------------------
\* The daemon with a device that completes every chain: the handler is
\* sequential code that runs on once a request is taken (main.rs lines 105-135)
\* and spin_poll polls until the chain is used, so every step other than the
\* arrival of a request is taken when it stays possible.
SpecLive == Spec /\ WF_vars(pc # "idle" /\ Next)

\* C35: transact returns only once the device has used the chain, with no
\* timeout: while a chain is pending the handler stays at its call site and no
\* request is taken or answered; and with a device that completes every chain
\* every Call gets its response.
C35_NoTimeoutAndProgress ==
    /\ [][(waiting /\ queue' = queue) =>
             /\ pc' = pc /\ cur' = cur /\ waiting'
             /\ handles' = handles]_vars
    /\ (cur.op \notin {"none", "close"}) ~> (pc = "respond")

\* C37: an open that returns an error leaves the handle table and next_handle
\* as they were before the call; an open that succeeds adds exactly one entry,
\* under the id next_handle, which is above every id handed out before, and
\* next_handle grows by one; nothing else changes next_handle.
C37_OpenHandleTable ==
    [][/\ (cur'.op = "open"
             /\ ~(pc # "respond" /\ pc' = "respond" /\ cur'.code = "OK")) =>
            /\ handles' = handles
            /\ next_handle' = next_handle
       /\ (cur.op = "open" /\ pc # "respond" /\ pc' = "respond"
             /\ cur'.code = "OK") =>
            /\ next_handle \notin DOMAIN handles
            /\ DOMAIN handles' = DOMAIN handles \cup {next_handle}
            /\ \A i \in DOMAIN handles : handles'[i] = handles[i]
            /\ cur'.val = next_handle
            /\ next_handle' = next_handle + 1
       /\ (next_handle' # next_handle) =>
            (cur.op = "open" /\ pc' = "respond" /\ cur'.code = "OK")
       /\ \A i \in DOMAIN handles : i < next_handle]_vars

\* a second open has succeeded: its id is new and next_handle is one above it
C37_Witness ==
    /\ pc = "respond" /\ cur.op = "open" /\ cur.code = "OK"
    /\ cur.val >= 2 /\ cur.val \in DOMAIN handles
    /\ next_handle = cur.val + 1

\* C38: frename sends Trenameat only if both parent walks returned a QID for
\* every component: at the Trenameat call site neither directory fid comes
\* from a partial walk and both are bound on the server.
C38_RenameatAfterFullWalks ==
    (pc = "ren_renameat") =>
        /\ cur.fid \notin partial /\ cur.fid2 \notin partial
        /\ cur.fid \in srv_bound /\ cur.fid2 \in srv_bound

\* C39: no two handles of the handle table hold the same fid, and no handle
\* holds the root fid.
C39_HandleFidsDistinct ==
    /\ \A i \in DOMAIN handles, j \in DOMAIN handles :
         (i # j) => handles[i].fid # handles[j].fid
    /\ \A i \in DOMAIN handles : handles[i].fid # root_fid

\* C40: a parser read that fails leaves the cursor where it was before the
\* call, and a read that succeeds advances it by the number of bytes the
\* value takes in the buffer.
C40_FailedReadKeepsCursor ==
    (pc = "codec" /\ wire.stage = "read") =>
        LET k == wire.read.k
            r == wire.read.r
        IN IF ~r.ok THEN r.pos = wire.read.pos
           ELSE r.pos = wire.read.pos +
                    (CASE k = "header" -> HeaderSIZE
                       [] k = "u8" -> 1
                       [] k = "u16" -> 2
                       [] k = "u32" -> 4
                       [] k = "u64" -> 8
                       [] k = "str" -> 2 + Len(r.v)
                       [] k = "data" -> 4 + Len(r.v)
                       [] OTHER -> QidSIZE)

====
